---- MODULE Spec2Model ----
(***************************************************************************)
(* A model of the mope_game_engine ECS core: the component storages of     *)
(* component_manager.hxx, the query engine of query.hxx, and the event     *)
(* drain loop of game_scene::tick.                                         *)
(*                                                                         *)
(* Conventions.  A std::vector is a sequence; C++ indexes it from 0 and    *)
(* the sequences here are indexed from 1, so the index the code records    *)
(* after push_back, size() - 1, is Len(m_data) here.  A pointer result is  *)
(* a sequence of length at most one: the empty sequence is nullptr and a   *)
(* one-row sequence points to that row.  A std::unordered_map is a function*)
(* whose DOMAIN is the set of keys.                                        *)
(***************************************************************************)
EXTENDS Integers, Sequences, FiniteSets, TLC

\* component.hxx: constexpr auto NoEntity = entity_id{ 0 };
NoEntity == 0

\* Entity ids handed to the entity storages.
MaxEntity == 3
Entities == 1..MaxEntity

\* Entity ids used as owners and related entities of relationship rows.
MaxRelEntity == 2
RelEntities == 1..MaxRelEntity

\* Largest number of rows the relationship storage is filled to.
MaxRelRows == 3

\* Largest number of relationship rows under the queries over relationships.
MaxQueryRows == 2

\* Payloads of a component (the fields besides entity / related_entity).
Values == {1, 2}

\* The entity component types of the model: A carries a payload (like
\* ball_behavior), B is a tag component (like ball_tag).
EntityTypes == {"A", "B"}

\* Largest number of events stored in the event pool over a run.
MaxEvents == 4

\* Largest number of systems added to a scene.
MaxSystems == 2

\* Largest number of collisions the ball of Pong meets within one tick.
MaxBounces == 2

\* Largest number of calls of tick in a run of the Pong scene.
MaxPongTicks == 2

\* Largest time step of a tick of the Pong scene, in units of the time grid.
MaxTimeStep == 2

VARIABLES
    store,        \* component_manager::m_entity_component_stores: type -> storage
    rel,          \* the component_storage of the relationship type R
    single,       \* the m_data variant of the singleton storage of type S
    shadow,       \* history: type -> (entity -> payload last set and not removed)
    relShadow,    \* history: <<owner, related>> -> payload last set and not removed
    lastOp,       \* history: the operation that produced this state, rows = the rows it touched
    view,         \* the result of the last query executed, << >> once invalidated
    m_events,     \* event_pool::m_events: the queue of (pointer, process_event<Event>) pairs
    m_pool,       \* event_pool::m_pool: pointer -> the event constructed there and not yet destroyed
    m_game_systems, \* game_scene::m_game_systems: event type -> the handlers registered for it
    pc,           \* where game_scene::tick is: "idle" (not running), "drain" (in its loop), "aborted"
    i,            \* the loop index of tick, counted from 1
    stack,        \* the process_event calls in progress, innermost last
    registered,   \* history: the event types of each system, in registration order
    origin,       \* history: per event, the event whose handler stored it (0: stored outside a handler)
    dispatched,   \* history: per event, how many times process_event was entered for it
    log,          \* history: the events for which the running or latest call of tick entered process_event
    finished,     \* history: the events for which process_event returned during that call of tick
    lastDispatch, \* history: the latest process_event call that returned during that call of tick
    outcome,      \* history: how the latest call of tick ended, "none" once anything was stored since
    pong,         \* history of the Pong scene: the sweeps and bounces of the running or latest tick
    m_last_entity, \* game_scene::m_last_entity: the id create_entity returned last
    created,      \* history: the ids create_entity returned, in order
    registry,     \* which map of storages the scene keeps and destroy_entity walks
    unwound,      \* history: the process_event calls the latest throw of a handler unwound, innermost last
    engine,       \* game_engine: its scenes, and the locals and the position of game_engine::run
    keys,         \* history: the key states run sampled since the latest tick, and what that tick reported
    life          \* history: per scene, the callbacks the engine has called on it

entityVars == <<m_last_entity, created, registry>>

engineVars == <<engine, keys, life>>

ecsVars == <<store, rel, single, shadow, relShadow, lastOp, view, entityVars, unwound, engineVars>>

sceneVars == <<m_events, m_pool, m_game_systems, pc, i, stack, registered,
               origin, dispatched, log, finished, lastDispatch, outcome>>

otherVars == <<sceneVars, pong, entityVars, unwound, engineVars>>

vars == <<ecsVars, sceneVars, pong>>

-----------------------------------------------------------------------------
(* std::unordered_map                                                      *)

EmptyMap == [k \in {} |-> 0]

\* operator[] followed by assignment, emplace, insert: the key maps to v.
MapPut(m, key, v) == [k \in DOMAIN m \cup {key} |-> IF k = key THEN v ELSE m[k]]

\* erase(iter)
MapErase(m, key) == [k \in DOMAIN m \ {key} |-> m[k]]

\* std::swap of two elements of a vector
Swap(s, a, b) == [s EXCEPT ![a] = s[b], ![b] = s[a]]

\* All orders in which a range-for may visit the keys of an unordered_map.
Orders(S) == { o \in [1..Cardinality(S) -> S] : \A a, b \in 1..Cardinality(S) : a # b => o[a] # o[b] }

-----------------------------------------------------------------------------
(* detail::component_storage<Component>, entity component                  *)

EmptyStorage == [m_data |-> << >>, m_index_map |-> EmptyMap]

\* An add_or_set that appends a row also for an entity that has one.
entity_add_or_set_appends(st, t) ==
    [m_data |-> Append(st.m_data, t),
     m_index_map |-> MapPut(st.m_index_map, t.entity, Len(st.m_data) + 1)]

entity_add_or_set(st, t) ==
    IF t.entity \in DOMAIN st.m_index_map
    THEN [st EXCEPT !.m_data[st.m_index_map[t.entity]] = t]
    ELSE [m_data |-> Append(st.m_data, t),
          m_index_map |-> MapPut(st.m_index_map, t.entity, Len(st.m_data) + 1)]

\* A swap-remove that repoints the map entry of the removed row instead of
\* the row that was moved into its slot.
entity_remove_repoints_removed(st, entity) ==
    IF entity \in DOMAIN st.m_index_map
    THEN LET index == st.m_index_map[entity]
             swapped == Swap(st.m_data, index, Len(st.m_data))
             repointed == MapPut(st.m_index_map, swapped[Len(swapped)].entity, index)
         IN  [m_data |-> SubSeq(swapped, 1, Len(swapped) - 1),
              m_index_map |-> MapErase(repointed, entity)]
    ELSE st

entity_remove(st, entity) ==
    IF entity \in DOMAIN st.m_index_map
    THEN LET index == st.m_index_map[entity]
             \* swap(m_data[index], m_data.back())
             swapped == Swap(st.m_data, index, Len(st.m_data))
             \* m_index_map[m_data[index].entity] = index
             repointed == MapPut(st.m_index_map, swapped[index].entity, index)
         IN  \* m_data.pop_back(); m_index_map.erase(iter)
             [m_data |-> SubSeq(swapped, 1, Len(swapped) - 1),
              m_index_map |-> MapErase(repointed, entity)]
    ELSE st

\* A get that answers the last row of the vector for an entity without a row.
entity_get_or_last(st, entity) ==
    IF entity \in DOMAIN st.m_index_map
    THEN << st.m_data[st.m_index_map[entity]] >>
    ELSE IF st.m_data # << >> THEN << st.m_data[Len(st.m_data)] >> ELSE << >>

entity_get(st, entity) ==
    IF entity \in DOMAIN st.m_index_map
    THEN << st.m_data[st.m_index_map[entity]] >>
    ELSE << >>

entity_all(st) == st.m_data

\* Every index the map holds is a slot of the vector (a read through any
\* other index is out of bounds).
IndexInRange(st) ==
    \A e \in DOMAIN st.m_index_map : st.m_index_map[e] \in 1..Len(st.m_data)

-----------------------------------------------------------------------------
(* detail::component_storage<Relationship>                                 *)
(* m_index_map is owner -> (related entity -> index into m_data).          *)

RelRow(e, r, v) == [entity |-> e, related_entity |-> r, value |-> v]

\* An add_or_set that looks the inner map up by the owner instead of the
\* related entity.
relationship_add_or_set_wrong_key(st, t) ==
    LET outer == IF t.entity \in DOMAIN st.m_index_map
                 THEN st.m_index_map
                 ELSE MapPut(st.m_index_map, t.entity, EmptyMap)
        inner_map == outer[t.entity]
    IN  IF t.entity \in DOMAIN inner_map
        THEN [m_data |-> [st.m_data EXCEPT ![inner_map[t.entity]] = t],
              m_index_map |-> outer]
        ELSE [m_data |-> Append(st.m_data, t),
              m_index_map |-> [outer EXCEPT ![t.entity] =
                                  MapPut(inner_map, t.related_entity, Len(st.m_data) + 1)]]

relationship_add_or_set(st, t) ==
    LET \* auto& inner_map = m_index_map[entity]  (inserts an empty inner map)
        outer == IF t.entity \in DOMAIN st.m_index_map
                 THEN st.m_index_map
                 ELSE MapPut(st.m_index_map, t.entity, EmptyMap)
        inner_map == outer[t.entity]
    IN  IF t.related_entity \in DOMAIN inner_map
        THEN [m_data |-> [st.m_data EXCEPT ![inner_map[t.related_entity]] = t],
              m_index_map |-> outer]
        ELSE [m_data |-> Append(st.m_data, t),
              m_index_map |-> [outer EXCEPT ![t.entity] =
                                  MapPut(inner_map, t.related_entity, Len(st.m_data) + 1)]]

\* m_index_map[e][r] = index, with operator[] at both levels.
MapPut2(m, e, r, index) ==
    MapPut(m, e, MapPut(IF e \in DOMAIN m THEN m[e] ELSE EmptyMap, r, index))

\* The body of the range-for over the owner's inner map, run for the keys of
\* `order` in turn.  data_end is the iterator into m_data, as the 1-based
\* position it points at; `index` is read from the live map entry, which the
\* structured binding references.
RECURSIVE remove_loop(_, _, _, _, _)
remove_loop(data, map, entity, order, data_end) ==
    IF order = << >>
    THEN [m_data |-> data, m_index_map |-> map, data_end |-> data_end]
    ELSE LET index == map[entity][Head(order)]
             \* swap(m_data[index], *--data_end)
             swapped == Swap(data, index, data_end - 1)
             \* m_index_map[m_data[index].entity][m_data[index].related_entity] = index
             repointed == MapPut2(map, swapped[index].entity,
                                  swapped[index].related_entity, index)
         IN  remove_loop(swapped, repointed, entity, Tail(order), data_end - 1)

\* The same loop run over a copy of the inner map taken before the loop:
\* the index of a row the loop has already moved is stale.
RECURSIVE remove_loop_over_copy(_, _, _, _, _, _)
remove_loop_over_copy(data, map, copy, entity, order, data_end) ==
    IF order = << >>
    THEN [m_data |-> data, m_index_map |-> map, data_end |-> data_end]
    ELSE LET index == copy[Head(order)]
             swapped == Swap(data, index, data_end - 1)
             repointed == MapPut2(map, swapped[index].entity,
                                  swapped[index].related_entity, index)
         IN  remove_loop_over_copy(swapped, repointed, copy, entity, Tail(order), data_end - 1)

relationship_remove_over_copy(st, entity, order) ==
    IF entity \in DOMAIN st.m_index_map
    THEN LET done == remove_loop_over_copy(st.m_data, st.m_index_map,
                         st.m_index_map[entity], entity, order, Len(st.m_data) + 1)
         IN  [m_data |-> SubSeq(done.m_data, 1, done.data_end - 1),
              m_index_map |-> [done.m_index_map EXCEPT ![entity] = EmptyMap]]
    ELSE st

\* A remove that also drops the rows other owners hold to the entity.
relationship_remove_drops_related(st, entity, order) ==
    LET owned == IF entity \in DOMAIN st.m_index_map
                 THEN LET done == remove_loop(st.m_data, st.m_index_map, entity, order,
                                              Len(st.m_data) + 1)
                      IN  [m_data |-> SubSeq(done.m_data, 1, done.data_end - 1),
                           m_index_map |-> [done.m_index_map EXCEPT ![entity] = EmptyMap]]
                 ELSE st
        kept == SelectSeq(owned.m_data, LAMBDA row : row.related_entity # entity)
    IN  [m_data |-> kept,
         m_index_map |->
             [o \in DOMAIN owned.m_index_map |->
                 [r \in DOMAIN owned.m_index_map[o] \ {entity} |->
                     CHOOSE k \in 1..Len(kept) :
                         kept[k].entity = o /\ kept[k].related_entity = r]]]

\* remove(entity); `order` is the order in which the range-for visits the
\* keys of the owner's inner map.
relationship_remove(st, entity, order) ==
    IF entity \in DOMAIN st.m_index_map
    THEN LET \* auto data_end = m_data.end()
             done == remove_loop(st.m_data, st.m_index_map, entity, order,
                                 Len(st.m_data) + 1)
         IN  \* m_data.erase(data_end, m_data.end()); iter->second.clear()
             [m_data |-> SubSeq(done.m_data, 1, done.data_end - 1),
              m_index_map |-> [done.m_index_map EXCEPT ![entity] = EmptyMap]]
    ELSE st

\* get(entity): the rows the owner's inner map points at.  The view yields
\* them in the iteration order of the inner map; it is given here as the
\* function from the inner map's keys to the rows they index.
relationship_get(st, entity) ==
    IF entity \in DOMAIN st.m_index_map
    THEN [r \in DOMAIN st.m_index_map[entity] |-> st.m_data[st.m_index_map[entity][r]]]
    ELSE EmptyMap

relationship_all(st) == st.m_data

RelIndexInRange(st) ==
    \A e \in DOMAIN st.m_index_map : \A r \in DOMAIN st.m_index_map[e] :
        st.m_index_map[e][r] \in 1..Len(st.m_data)

\* The keys of the owner's inner map (none when the owner has no inner map).
InnerKeys(st, entity) ==
    IF entity \in DOMAIN st.m_index_map THEN DOMAIN st.m_index_map[entity] ELSE {}

-----------------------------------------------------------------------------
(* detail::component_storage<Component>, singleton component               *)
(* m_data is std::variant<std::monostate, Component, Component*>.          *)

\* The null pointer, among the external pointers a caller may hand over.
nullptr == 0
Pointers == {nullptr, 1, 2}

Monostate == [tag |-> "monostate", val |-> 0]

\* add_or_set(T&& t): m_data = t
singleton_add_or_set(t) == [tag |-> "Component", val |-> t]

\* add_or_set(Component* external_data): m_data = external_data
singleton_add_or_set_external(external_data) == [tag |-> "pointer", val |-> external_data]

\* remove(): m_data = std::monostate{}
singleton_remove == Monostate

\* A get() whose visitor answers nullptr for an external pointer.
singleton_get_ignores_pointer(m_data) ==
    CASE m_data.tag = "monostate" -> << >>
      [] m_data.tag = "Component" -> << [kind |-> "owned", val |-> m_data.val] >>
      [] m_data.tag = "pointer" -> << >>

\* get(): std::visit over the three alternatives
singleton_get(m_data) ==
    CASE m_data.tag = "monostate" -> << >>
      [] m_data.tag = "Component" -> << [kind |-> "owned", val |-> m_data.val] >>
      [] m_data.tag = "pointer" ->
            IF m_data.val = nullptr
            THEN << >>
            ELSE << [kind |-> "external", val |-> m_data.val] >>

-----------------------------------------------------------------------------
(* component_manager operations on the storages                            *)

EntityRow(e, v) == [entity |-> e, value |-> v]

\* The scenes an engine is given at most, and the life of a scene that was
\* not loaded yet.
MaxScenes == 2

NotLoaded == [on_load |-> 0, on_unload |-> 0, ticked |-> FALSE, rendered |-> FALSE,
              early |-> FALSE, late |-> FALSE, unloaded_in |-> "none"]

NoInputs == [held_keys |-> {}, pressed_keys |-> {}, released_keys |-> {}]

\* game_engine::game_engine(): no scenes, m_tick_time{ 0.0 }; run not called.
EngineStart ==
    /\ engine = [pc |-> "start", m_tick_time |-> 0, m_scenes |-> << >>,
                 m_new_scenes |-> << >>, m_done |-> {}, added |-> 0,
                 accumulator |-> 0, dt |-> 0, previous_key_states |-> {},
                 inputs |-> NoInputs]
    /\ keys = [samples |-> << >>, frames |-> << >>]
    /\ life = [s \in 1..MaxScenes |-> NotLoaded]

StoragesEmpty ==
    /\ EngineStart
    /\ store = [T \in EntityTypes |-> EmptyStorage]
    /\ rel = [m_data |-> << >>, m_index_map |-> EmptyMap]
    /\ single = Monostate
    /\ shadow = [T \in EntityTypes |-> EmptyMap]
    /\ relShadow = EmptyMap
    /\ lastOp = [op |-> "none", type |-> "none", entity |-> NoEntity, rows |-> 0]
    /\ m_last_entity = NoEntity
    /\ created = << >>
    /\ unwound = << >>
    /\ view = << >>

\* The history of a Pong scene before its first tick: trace lists the calls
\* of the handlers of the collision sweep in the running or latest tick.
PongIdle == [sweeps |-> 0, bounces |-> 0, ticks |-> 0, trace |-> << >>]

\* game_scene::game_scene(): no systems, an empty event pool.
DispatcherInit ==
    /\ m_events = << >>
    /\ m_pool = EmptyMap
    /\ m_game_systems = EmptyMap
    /\ pc = "idle"
    /\ i = 0
    /\ stack = << >>
    /\ registered = << >>
    /\ origin = << >>
    /\ dispatched = << >>
    /\ log = << >>
    /\ finished = << >>
    /\ lastDispatch = << >>
    /\ outcome = "none"

SceneInit == DispatcherInit /\ pong = PongIdle

\* The scene of the storages above keeps the entity storages in a map of
\* their own.
StorageInit == StoragesEmpty /\ registry = "entity stores"

Init == StorageInit /\ SceneInit

\* set_component(Component{ e, v })
set_component(T, e, v) ==
    /\ store' = [store EXCEPT ![T] = entity_add_or_set(store[T], EntityRow(e, v))]
    /\ shadow' = [shadow EXCEPT ![T] = MapPut(shadow[T], e, v)]
    /\ view' = << >>
    /\ UNCHANGED <<rel, single, relShadow, otherVars>>

\* remove_component<Component>(e)
remove_component(T, e) ==
    /\ store' = [store EXCEPT ![T] = entity_remove(store[T], e)]
    /\ shadow' = [shadow EXCEPT ![T] = MapErase(shadow[T], e)]
    /\ view' = << >>
    /\ UNCHANGED <<rel, single, relShadow, otherVars>>

\* set_component(R{ e, r, v })
set_relationship(e, r, v) ==
    /\ rel' = relationship_add_or_set(rel, RelRow(e, r, v))
    /\ relShadow' = MapPut(relShadow, <<e, r>>, v)
    /\ view' = << >>
    /\ UNCHANGED <<store, single, shadow, otherVars>>

\* remove_component<R>(e)
remove_relationship(e) ==
    /\ \E order \in Orders(InnerKeys(rel, e)) :
           rel' = relationship_remove(rel, e, order)
    /\ relShadow' = [p \in { q \in DOMAIN relShadow : q[1] # e } |-> relShadow[p]]
    /\ view' = << >>
    /\ UNCHANGED <<store, single, shadow, otherVars>>

\* set_component(S{ v })
set_singleton(v) ==
    /\ single' = singleton_add_or_set(v)
    /\ view' = << >>
    /\ UNCHANGED <<store, rel, shadow, relShadow, otherVars>>

\* set_external_component<S>(p)
set_external_component(p) ==
    /\ single' = singleton_add_or_set_external(p)
    /\ view' = << >>
    /\ UNCHANGED <<store, rel, shadow, relShadow, otherVars>>

\* remove_component<S>()
remove_singleton ==
    /\ single' = singleton_remove
    /\ view' = << >>
    /\ UNCHANGED <<store, rel, shadow, relShadow, otherVars>>

-----------------------------------------------------------------------------
(* The entity storage on its own: every sequence of add_or_set and remove  *)
(* on the storage of A.                                                    *)

SetComponent(T, e, v) ==
    /\ set_component(T, e, v)
    /\ lastOp' = [op |-> IF e \in DOMAIN shadow[T] THEN "overwrite" ELSE "set",
                  type |-> T, entity |-> e, rows |-> 1]

RemoveComponent(T, e) ==
    /\ remove_component(T, e)
    /\ lastOp' = [op |-> "remove", type |-> T, entity |-> e,
                  rows |-> IF e \in DOMAIN shadow[T] THEN 1 ELSE 0]

EntityNext ==
    \/ \E e \in Entities, v \in Values : SetComponent("A", e, v)
    \/ \E e \in Entities \cup {NoEntity} : RemoveComponent("A", e)

SpecEntity == Init /\ [][EntityNext]_vars

\* C1: after remove(e) on an entity storage, get(e) is absent, get(x) is the
\* value last set for every other stored entity x, and all() holds exactly
\* the entities that still have a row, each once.
C1_SwapRemove ==
    (lastOp.op = "remove" /\ lastOp.type = "A") =>
        LET st == store["A"]
            expected == shadow["A"]
        IN  /\ IndexInRange(st)
            /\ entity_get(st, lastOp.entity) = << >>
            /\ \A x \in Entities :
                   entity_get(st, x) =
                       IF x \in DOMAIN expected
                       THEN << EntityRow(x, expected[x]) >>
                       ELSE << >>
            /\ { entity_all(st)[k].entity : k \in 1..Len(entity_all(st)) } = DOMAIN expected
            /\ Len(entity_all(st)) = Cardinality(DOMAIN expected)

\* The scenario of the claim: rows for {1,2,3}, then remove(2), which swaps
\* the row of another entity into the freed slot.
C1_Witness ==
    /\ lastOp = [op |-> "remove", type |-> "A", entity |-> 2, rows |-> 1]
    /\ DOMAIN shadow["A"] = {1, 3}
    /\ Len(store["A"].m_data) = 2
    /\ store["A"].m_data[2].entity = 1

-----------------------------------------------------------------------------
(* The relationship storage on its own: every sequence of add_or_set and   *)
(* remove on the storage of R.                                             *)

\* The storage is filled to at most `cap` rows.
RoomFor(e, r, cap) == <<e, r>> \in DOMAIN relShadow \/ Len(rel.m_data) < cap

SetRelationship(e, r, v) ==
    /\ RoomFor(e, r, MaxRelRows)
    /\ set_relationship(e, r, v)
    /\ lastOp' = [op |-> IF <<e, r>> \in DOMAIN relShadow THEN "overwrite" ELSE "set",
                  type |-> "R", entity |-> e, rows |-> 1]

RemoveRelationship(e) ==
    /\ remove_relationship(e)
    /\ lastOp' = [op |-> "remove", type |-> "R", entity |-> e,
                  rows |-> Cardinality({ q \in DOMAIN relShadow : q[1] = e })]

RelNext ==
    \/ \E e \in RelEntities, r \in RelEntities, v \in Values : SetRelationship(e, r, v)
    \/ \E e \in RelEntities \cup {NoEntity} : RemoveRelationship(e)

SpecRel == Init /\ [][RelNext]_vars

\* The rows last set and not removed whose owner is e, keyed by related entity.
ExpectedRowsOf(e) ==
    [r \in { q \in RelEntities : <<e, q>> \in DOMAIN relShadow } |->
        RelRow(e, r, relShadow[<<e, r>>])]

\* The rows of m_data as a set.
RowSet(st) == { st.m_data[k] : k \in 1..Len(st.m_data) }

\* C2: remove(owner) on a relationship storage removes every row of that
\* owner, in whatever slots they are and in whatever order the inner map is
\* visited, and leaves every row of every other owner present, unchanged and
\* returned by get(other owner).
C2_RemoveOwner ==
    (lastOp.op = "remove" /\ lastOp.type = "R") =>
        /\ RelIndexInRange(rel)
        /\ relationship_get(rel, lastOp.entity) = EmptyMap
        /\ \A k \in 1..Len(relationship_all(rel)) :
               relationship_all(rel)[k].entity # lastOp.entity
        /\ \A o \in RelEntities \ {lastOp.entity} :
               relationship_get(rel, o) = ExpectedRowsOf(o)
        /\ RowSet(rel) = { RelRow(p[1], p[2], relShadow[p]) : p \in DOMAIN relShadow }
        /\ Len(rel.m_data) = Cardinality(DOMAIN relShadow)

\* An owner with two rows was removed while another owner's row stayed.
C2_Witness ==
    /\ lastOp = [op |-> "remove", type |-> "R", entity |-> 1, rows |-> 2]
    /\ 1 \in DOMAIN rel.m_index_map
    /\ Len(rel.m_data) = 1
    /\ rel.m_data[1].entity = 2

\* C3: after add_or_set every row set for the owner and not removed is in
\* get(owner), one per related entity, an add_or_set of an existing
\* (owner, related) pair overwrites its row, and m_data never holds two rows
\* of one (owner, related) pair.
C3_Multiplicity ==
    /\ RelIndexInRange(rel)
    /\ Cardinality({ <<rel.m_data[k].entity, rel.m_data[k].related_entity>> :
                        k \in 1..Len(rel.m_data) }) = Len(rel.m_data)
    /\ (lastOp.type = "R" /\ lastOp.op \in {"set", "overwrite"}) =>
           /\ relationship_get(rel, lastOp.entity) = ExpectedRowsOf(lastOp.entity)
           /\ Len(rel.m_data) = Cardinality(DOMAIN relShadow)

\* An add_or_set has overwritten one of the two rows of an owner.
C3_Witness ==
    /\ lastOp = [op |-> "overwrite", type |-> "R", entity |-> 1, rows |-> 1]
    /\ DOMAIN relationship_get(rel, 1) = {1, 2}
    /\ relationship_get(rel, 1)[1].value # relationship_get(rel, 1)[2].value

-----------------------------------------------------------------------------
(* detail::gather_components<A, B, S>: the query whose primary component   *)
(* is the entity component A, joined with the entity component B and the   *)
(* singleton S.                                                            *)

\* get_from_manager<Component>(manager, entity), entity component
get_from_manager_entity(T, entity) == entity_get(store[T], entity)

\* get_from_manager<Component>(manager, entity), singleton: the entity is ignored
get_from_manager_singleton(entity) == singleton_get(single)

\* is_not_null of a pointer
is_not_null(t) == t # << >>

\* deref of a pointer
deref(t) == t[1]

\* A gather_components that stops at the first primary row with a missing
\* requirement instead of skipping it (take_while for filter).
gather_components_take_while ==
    LET primary == entity_all(store["A"])
        tuples == [k \in 1..Len(primary) |->
                      << <<primary[k]>>,
                         get_from_manager_entity("B", primary[k].entity),
                         get_from_manager_singleton(primary[k].entity) >>]
        Kept(tup) == \A n \in 1..Len(tup) : is_not_null(tup[n])
        stop == { k \in 1..Len(tuples) : ~Kept(tuples[k]) }
        upto == IF stop = {} THEN Len(tuples)
                ELSE (CHOOSE k \in stop : \A q \in stop : k <= q) - 1
    IN  [k \in 1..upto |-> [n \in 1..Len(tuples[k]) |-> deref(tuples[k][n])]]

gather_components ==
    LET primary == entity_all(store["A"])
        \* transform: the primary row and a pointer for every other component
        tuples == [k \in 1..Len(primary) |->
                      << <<primary[k]>>,
                         get_from_manager_entity("B", primary[k].entity),
                         get_from_manager_singleton(primary[k].entity) >>]
        \* filter: (is_not_null(m) && ...)
        Kept(tup) == \A n \in 1..Len(tup) : is_not_null(tup[n])
        kept == SelectSeq(tuples, Kept)
    IN  \* transform: deref(ms)...
        [k \in 1..Len(kept) |-> [n \in 1..Len(kept[k]) |-> deref(kept[k][n])]]

\* query<A, B, S>() iterated to its end
ExecQuery ==
    /\ view = << >>
    /\ view' = << gather_components >>
    /\ UNCHANGED <<store, rel, single, shadow, relShadow, lastOp, otherVars>>

QueryNext ==
    \/ \E T \in EntityTypes, e \in Entities : set_component(T, e, 1) /\ UNCHANGED lastOp
    \/ \E T \in EntityTypes, e \in Entities : remove_component(T, e) /\ UNCHANGED lastOp
    \/ \E v \in Values : set_singleton(v) /\ UNCHANGED lastOp
    \/ \E p \in Pointers : set_external_component(p) /\ UNCHANGED lastOp
    \/ remove_singleton /\ UNCHANGED lastOp
    \/ ExecQuery

SpecQuery == Init /\ [][QueryNext]_vars

\* The tuples of a query result whose primary row belongs to entity e.
TuplesOf(tuples, e) == { k \in 1..Len(tuples) : tuples[k][1].entity = e }

\* C4: the query <A, B, S> yields a tuple for entity E exactly when E has a
\* row of A and a row of B and the singleton S is present; it yields one
\* tuple for such an E, holding E's rows and the singleton.
C4_QueryFilter ==
    view # << >> =>
        \A e \in Entities :
            IF /\ e \in DOMAIN shadow["A"]
               /\ e \in DOMAIN shadow["B"]
               /\ singleton_get(single) # << >>
            THEN /\ Cardinality(TuplesOf(view[1], e)) = 1
                 /\ \A k \in TuplesOf(view[1], e) :
                        view[1][k] = << EntityRow(e, shadow["A"][e]),
                                        EntityRow(e, shadow["B"][e]),
                                        singleton_get(single)[1] >>
            ELSE TuplesOf(view[1], e) = {}

\* A result with a tuple for one entity, while a second entity has A but
\* lacks B and is left out, ahead of the first in the primary storage.
C4_Witness ==
    /\ view # << >>
    /\ Len(view[1]) = 1
    /\ view[1][1][1].entity = 2
    /\ DOMAIN shadow["A"] = {1, 2}
    /\ DOMAIN shadow["B"] = {2, 3}
    /\ store["A"].m_data[1].entity = 1

-----------------------------------------------------------------------------
(* query.hxx: resolve_entity_queryable<related<R, B>>, the rows of R owned *)
(* by an entity, each joined with the component B of its related entity.   *)

\* get_queryables_for_entity<B>(manager, entity): an optional tuple, given as
\* a sequence of length at most one.
get_queryables_for_entity(entity) ==
    LET results == << entity_get(store["B"], entity) >>
    IN  IF \A n \in 1..Len(results) : is_not_null(results[n])
        THEN << [n \in 1..Len(results) |-> deref(results[n])] >>
        ELSE << >>

\* impl with the nested requirement resolved against the owner of the row
\* instead of its related entity.
related_impl_resolves_owner(relationship_view) ==
    LET opts == [r \in DOMAIN relationship_view |->
                    LET rel_component == relationship_view[r]
                        queryables == get_queryables_for_entity(rel_component.entity)
                    IN  IF queryables = << >> THEN << >>
                        ELSE << <<rel_component>> \o queryables[1] >>]
    IN  [r \in { q \in DOMAIN opts : opts[q] # << >> } |-> opts[r][1]]

\* resolve_entity_queryable<related<R, B>>::impl: transform, filter on
\* has_value, transform to the value.  The view is keyed as relationship_get's.
related_impl(relationship_view) ==
    LET opts == [r \in DOMAIN relationship_view |->
                    LET rel_component == relationship_view[r]
                        queryables == get_queryables_for_entity(rel_component.related_entity)
                    IN  IF queryables = << >> THEN << >>
                        ELSE << <<rel_component>> \o queryables[1] >>]
    IN  [r \in { q \in DOMAIN opts : opts[q] # << >> } |-> opts[r][1]]

\* resolve_entity_queryable<related<R, B>>::one(manager, entity)
related_one(entity) == related_impl(relationship_get(rel, entity))

\* query<related<R, B>>(entity) iterated to its end
ExecRelatedQuery(entity) ==
    /\ view = << >>
    /\ view' = << [owner |-> entity, rows |-> related_one(entity)] >>
    /\ UNCHANGED <<store, rel, single, shadow, relShadow, lastOp, otherVars>>

RelQueryNext ==
    \/ \E e \in RelEntities, r \in RelEntities :
           RoomFor(e, r, MaxQueryRows) /\ set_relationship(e, r, 1) /\ UNCHANGED lastOp
    \/ \E e \in RelEntities : remove_relationship(e) /\ UNCHANGED lastOp
    \/ \E e \in RelEntities : set_component("B", e, 1) /\ UNCHANGED lastOp
    \/ \E e \in RelEntities : remove_component("B", e) /\ UNCHANGED lastOp
    \/ \E e \in RelEntities : ExecRelatedQuery(e)

SpecRelQuery == Init /\ [][RelQueryNext]_vars

\* C5: the sequence related<R, B> resolves for owner E holds the row (E, X)
\* of R exactly when that row is stored and X has the component B, each such
\* row once and joined with the B row of X.
C5_RelatedFilter ==
    view # << >> =>
        LET e == view[1].owner
            rows == view[1].rows
        IN  \A x \in RelEntities :
                LET hits == { r \in DOMAIN rows : rows[r][1].related_entity = x }
                IN  IF <<e, x>> \in DOMAIN relShadow /\ x \in DOMAIN shadow["B"]
                    THEN /\ Cardinality(hits) = 1
                         /\ \A r \in hits :
                                rows[r] = << RelRow(e, x, relShadow[<<e, x>>]),
                                             EntityRow(x, shadow["B"][x]) >>
                    ELSE hits = {}

\* Owner 1 has rows to entities 1 and 2; only entity 2 has B, so the row to
\* entity 1 is skipped and the row to entity 2 is kept.
C5_Witness ==
    /\ view # << >>
    /\ view[1].owner = 1
    /\ DOMAIN shadow["B"] = {2}
    /\ {<<1, 1>>, <<1, 2>>} \subseteq DOMAIN relShadow
    /\ DOMAIN view[1].rows = {2}

-----------------------------------------------------------------------------
(* game_scene: registration of systems, the event pool, and the drain loop *)
(* of tick.  An event is named by the pointer event_pool::store got from   *)
(* the pool; pointers are numbered in the order of the calls of store.     *)

\* The event types of the scenes of the generic dispatcher.
GameEvents == {"tick_event", "game_event"}

\* The pointer the next call of store gets from the pool.
NextPtr == Len(origin) + 1

\* m_game_systems[typeid(Event)] read through operator[]: an absent key
\* reads as an empty vector.
Subscribers(systems, Event) ==
    IF Event \in DOMAIN systems THEN systems[Event] ELSE << >>

\* add_game_system_imp as the one-event registration of the earlier
\* game_scene.hxx did it: the system is entered under a single event type.
add_game_system_imp_single_event(systems, system, Events) ==
    LET Event == CHOOSE E \in Events : TRUE
    IN  MapPut(systems, Event, Append(Subscribers(systems, Event), system))

\* add_game_system_imp: the fold (m_game_systems[typeid(Events)].emplace_back(..), ...)
add_game_system_imp(systems, system, Events) ==
    [E \in DOMAIN systems \cup Events |->
        IF E \in Events
        THEN Append(Subscribers(systems, E), system)
        ELSE systems[E]]

\* event_pool::store with the new pair put at the front of m_events.
event_pool_store_at_front(events, ptr, Event) ==
    << [ptr |-> ptr, process_event |-> Event] >> \o events

\* event_pool::store: m_events.emplace_back(event, &process_event<Event>)
event_pool_store(events, ptr, Event) ==
    Append(events, [ptr |-> ptr, process_event |-> Event])

\* The frame of a call of process_event<Event>(scene, ptr): j is the
\* position of the range-for in the handlers of Event, running tells
\* whether the handler at j is executing, invoked lists the handlers called.
Frame(ptr, Event) ==
    [ptr |-> ptr, Event |-> Event, j |-> 1, running |-> FALSE, invoked |-> << >>]

Top == stack[Len(stack)]

\* A handler is executing and nothing is nested inside it.
InHandler == stack # << >> /\ Top.running

\* The event whose handler is executing, 0 outside of handlers.
CurrentEvent == IF stack = << >> THEN 0 ELSE Top.ptr

\* emplace_event<Event>(args...) / push_event(event) with the event
\* dispatched from inside the call: process_event is entered for it on top
\* of the caller.
emplace_event_dispatches_now(Event, args) ==
    /\ m_events' = event_pool_store(m_events, NextPtr, Event)
    /\ m_pool' = MapPut(m_pool, NextPtr, args)
    /\ origin' = Append(origin, CurrentEvent)
    /\ dispatched' = Append(dispatched, 1)
    /\ stack' = Append(stack, Frame(NextPtr, Event))
    /\ log' = Append(log, NextPtr)

\* emplace_event<Event>(args...) / push_event(event): allocate from the
\* pool, construct the event there, append the pair to m_events.
emplace_event(Event, args) ==
    /\ m_events' = event_pool_store(m_events, NextPtr, Event)
    /\ m_pool' = MapPut(m_pool, NextPtr, args)
    /\ origin' = Append(origin, CurrentEvent)
    /\ dispatched' = Append(dispatched, 0)
    /\ UNCHANGED <<stack, log>>

\* add_game_system / emplace_game_system, called while no tick is running
\* (scenes add their systems in on_load).
AddGameSystem(Events) ==
    /\ pc = "idle"
    /\ Len(registered) < MaxSystems
    /\ m_game_systems' = add_game_system_imp(m_game_systems, Len(registered) + 1, Events)
    /\ registered' = Append(registered, Events)
    /\ UNCHANGED <<ecsVars, m_events, m_pool, pc, i, stack, origin, dispatched,
                   log, finished, lastDispatch, outcome>>

\* emplace_event / push_event called while no tick is running.
EmplaceIdle(Event, args) ==
    /\ pc = "idle"
    /\ NextPtr <= MaxEvents
    /\ emplace_event(Event, args)
    /\ outcome' = "none"
    /\ UNCHANGED <<ecsVars, m_game_systems, pc, i, registered, finished, lastDispatch>>

\* A tick that puts its tick event in front of what is already queued.
Tick_seeds_at_front(time_step) ==
    /\ pc = "idle"
    /\ m_events' = << [ptr |-> NextPtr, process_event |-> "tick_event"] >> \o m_events
    /\ m_pool' = MapPut(m_pool, NextPtr, time_step)
    /\ origin' = Append(origin, 0)
    /\ dispatched' = Append(dispatched, 0)
    /\ pc' = "drain"
    /\ i' = 1
    /\ log' = << >>
    /\ finished' = << >>
    /\ lastDispatch' = << >>
    /\ outcome' = "running"
    /\ UNCHANGED <<ecsVars, m_game_systems, stack, registered>>

\* tick entry: emplace_event<tick_event>(time_step, inputs), then the loop
\* starts at index 0 (1 here).
Tick(time_step) ==
    /\ pc = "idle"
    /\ m_events' = event_pool_store(m_events, NextPtr, "tick_event")
    /\ m_pool' = MapPut(m_pool, NextPtr, time_step)
    /\ origin' = Append(origin, 0)
    /\ dispatched' = Append(dispatched, 0)
    /\ pc' = "drain"
    /\ i' = 1
    /\ log' = << >>
    /\ finished' = << >>
    /\ lastDispatch' = << >>
    /\ outcome' = "running"
    /\ UNCHANGED <<ecsVars, m_game_systems, stack, registered>>

\* The loop body of tick up to the call: copy events[i], enter
\* process_event<Event>.  An event destroyed by an earlier process_event is
\* read through a dangling pointer: the call either goes on as with a live
\* event or the process ends.
EnterProcessEvent ==
    /\ pc = "drain"
    /\ stack = << >>
    /\ i <= Len(m_events)
    /\ LET ptr == m_events[i].ptr
           Event == m_events[i].process_event
       IN  \E behaviour \in IF ptr \in DOMAIN m_pool
                            THEN {"defined"}
                            ELSE {"goes on", "ends"} :
             IF behaviour = "ends"
             THEN /\ pc' = "aborted"
                  /\ UNCHANGED <<stack, m_game_systems, log, dispatched>>
             ELSE /\ stack' = << Frame(ptr, Event) >>
                  /\ m_game_systems' = MapPut(m_game_systems, Event,
                                              Subscribers(m_game_systems, Event))
                  /\ log' = Append(log, ptr)
                  /\ dispatched' = [dispatched EXCEPT ![ptr] = @ + 1]
                  /\ pc' = pc
    /\ UNCHANGED <<ecsVars, m_events, m_pool, i, registered, origin, finished,
                   lastDispatch, outcome>>

\* process_event: the range-for calls the next handler, system(scene, *event).
InvokeSystem ==
    /\ stack # << >>
    /\ ~Top.running
    /\ Top.j <= Len(Subscribers(m_game_systems, Top.Event))
    /\ stack' = [stack EXCEPT ![Len(stack)] =
                    [@ EXCEPT !.running = TRUE,
                              !.invoked = Append(@, Subscribers(m_game_systems, Top.Event)[Top.j])]]
    /\ UNCHANGED <<ecsVars, m_events, m_pool, m_game_systems, pc, i, registered,
                   origin, dispatched, log, finished, lastDispatch, outcome>>

\* The running handler stores an event.
HandlerEmit(Event, args) ==
    /\ InHandler
    /\ NextPtr <= MaxEvents
    /\ emplace_event(Event, args)
    /\ UNCHANGED <<ecsVars, m_game_systems, pc, i, registered, finished,
                   lastDispatch, outcome>>

\* The running handler returns; the range-for moves to the next handler.
HandlerReturn ==
    /\ InHandler
    /\ stack' = [stack EXCEPT ![Len(stack)] =
                    [@ EXCEPT !.running = FALSE, !.j = @ + 1]]
    /\ UNCHANGED <<ecsVars, m_events, m_pool, m_game_systems, pc, i, registered,
                   origin, dispatched, log, finished, lastDispatch, outcome>>

\* A tick that catches what a handler throws and goes on with the next event.
HandlerThrow_tick_goes_on ==
    /\ InHandler
    /\ stack' = << >>
    /\ pc' = "drain"
    /\ i' = i + 1
    /\ outcome' = "threw"
    /\ unwound' = stack
    /\ UNCHANGED <<store, rel, single, shadow, relShadow, lastOp, view, entityVars,
                   engineVars, m_events, m_pool, m_game_systems, registered,
                   origin, dispatched, log, finished, lastDispatch>>

\* The running handler throws.  Neither process_event nor tick catches: the
\* stack unwinds out of tick, past m_event_pool.clear().
HandlerThrow ==
    /\ InHandler
    /\ stack' = << >>
    /\ pc' = "idle"
    /\ i' = 0
    /\ outcome' = "threw"
    /\ unwound' = stack
    /\ UNCHANGED <<store, rel, single, shadow, relShadow, lastOp, view, entityVars,
                   engineVars, m_events, m_pool, m_game_systems, registered,
                   origin, dispatched, log, finished, lastDispatch>>

\* process_event after its range-for: destroy the event, deallocate it,
\* return; when the caller is tick, its loop does ++i.
LeaveProcessEvent ==
    /\ stack # << >>
    /\ ~Top.running
    /\ Top.j > Len(Subscribers(m_game_systems, Top.Event))
    /\ m_pool' = MapErase(m_pool, Top.ptr)
    /\ stack' = SubSeq(stack, 1, Len(stack) - 1)
    /\ finished' = Append(finished, Top.ptr)
    /\ lastDispatch' = << [ptr |-> Top.ptr, Event |-> Top.Event, invoked |-> Top.invoked] >>
    /\ i' = IF Len(stack) = 1 THEN i + 1 ELSE i
    /\ UNCHANGED <<ecsVars, m_events, m_game_systems, pc, registered, origin,
                   dispatched, log, outcome>>

\* tick once i reaches events.size(): m_event_pool.clear(), return.
TickReturn ==
    /\ pc = "drain"
    /\ stack = << >>
    /\ i > Len(m_events)
    /\ m_events' = << >>
    /\ pc' = "idle"
    /\ i' = 0
    /\ outcome' = "returned"
    /\ UNCHANGED <<ecsVars, m_pool, m_game_systems, stack, registered, origin,
                   dispatched, log, finished, lastDispatch>>

\* The nonempty sets of event types a system may handle.
EventSets == { Events \in SUBSET GameEvents : Events # {} }

\* tick_event is constructed by tick alone; scenes and handlers store the
\* events of the game.
DispatchNext ==
    \/ \E Events \in EventSets : AddGameSystem(Events) /\ UNCHANGED pong
    \/ EmplaceIdle("game_event", 0) /\ UNCHANGED pong
    \/ NextPtr <= MaxEvents /\ Tick(1) /\ UNCHANGED pong
    \/ EnterProcessEvent /\ UNCHANGED pong
    \/ InvokeSystem /\ UNCHANGED pong
    \/ HandlerEmit("game_event", 0) /\ UNCHANGED pong
    \/ HandlerReturn /\ UNCHANGED pong
    \/ HandlerThrow /\ UNCHANGED pong
    \/ LeaveProcessEvent /\ UNCHANGED pong
    \/ TickReturn /\ UNCHANGED pong

SpecDispatch == Init /\ [][DispatchNext]_vars

\* The events of the log that were stored by handlers.
StoredByHandler == { k \in DOMAIN log : origin[log[k]] # 0 }

\* C6: events are dispatched in the order they were stored.  The queue
\* holds its events in store order (pointers are numbered by store calls),
\* and the events a call of tick has dispatched so far are the front of the
\* queue, in queue order; so an event stored by a handler is dispatched
\* after everything that was queued when it was stored.
C6_Fifo ==
    /\ \A p, q \in DOMAIN m_events : p < q => m_events[p].ptr < m_events[q].ptr
    /\ \A p, q \in DOMAIN log : p < q => log[p] < log[q]
    /\ pc = "drain" =>
          /\ Len(log) <= Len(m_events)
          /\ \A k \in DOMAIN log : log[k] = m_events[k].ptr

\* Two events stored before the tick, then the tick event, then an event
\* stored by the handler of the first one: dispatched in exactly that order.
C6_Witness ==
    /\ pc = "drain"
    /\ log = <<1, 2, 3, 4>>
    /\ origin = <<0, 0, 0, 1>>
    /\ m_events[3].process_event = "tick_event"

\* C7: dispatch is not reentrant.  At most one call of process_event is in
\* progress; it is the one for the event at the loop index of tick; every
\* event dispatched earlier in the tick has had its process_event return;
\* and an event stored by a handler is dispatched only after process_event
\* has returned for the event whose handler stored it.
C7_Trampolined ==
    /\ Len(stack) <= 1
    /\ pc = "drain" =>
          /\ Len(log) = Len(finished) + Len(stack)
          /\ \A k \in DOMAIN finished : finished[k] = log[k]
          /\ stack # << >> => i \in DOMAIN m_events /\ stack[1].ptr = m_events[i].ptr
          /\ \A k \in StoredByHandler :
                \E f \in DOMAIN finished : finished[f] = origin[log[k]]

\* The first of two handlers of the event being processed has stored an
\* event and is still running: the new event waits in the queue, undispatched.
C7_Witness ==
    /\ InHandler
    /\ Len(stack) = 1
    /\ Top.j = 1
    /\ Len(Subscribers(m_game_systems, Top.Event)) = 2
    /\ \E q \in DOMAIN origin :
          /\ origin[q] = Top.ptr
          /\ dispatched[q] = 0
          /\ m_events[Len(m_events)].ptr = q

\* The systems registered for Event, in registration order.
RegisteredFor(Event) ==
    SelectSeq([s \in DOMAIN registered |-> s], LAMBDA s : Event \in registered[s])

\* C8: a call of process_event<Event> invokes the systems registered for
\* Event and no others, in registration order, each at most once while it
\* runs and each exactly once by the time it returns.
C8_RegisteredSystems ==
    /\ \A f \in DOMAIN stack :
          /\ Len(stack[f].invoked) <= Len(RegisteredFor(stack[f].Event))
          /\ stack[f].invoked =
                SubSeq(RegisteredFor(stack[f].Event), 1, Len(stack[f].invoked))
    /\ (pc = "drain" /\ lastDispatch # << >>) =>
          lastDispatch[1].invoked = RegisteredFor(lastDispatch[1].Event)

\* System 1 handles game_event only, system 2 handles both types: the tick
\* event went to system 2 alone, and a game_event has now gone to 1 then 2.
C8_Witness ==
    /\ registered = << {"game_event"}, {"tick_event", "game_event"} >>
    /\ lastDispatch # << >>
    /\ lastDispatch[1].Event = "tick_event"
    /\ lastDispatch[1].invoked = <<2>>
    /\ stack # << >>
    /\ Top.Event = "game_event"
    /\ Top.invoked = <<1, 2>>

\* C9: when tick has returned normally the queue is empty and every event
\* stored so far has been dispatched exactly once.
C9_DrainedExactlyOnce ==
    outcome = "returned" =>
        /\ m_events = << >>
        /\ \A p \in DOMAIN dispatched : dispatched[p] = 1

-----------------------------------------------------------------------------
(* examples/pong: the systems of the collision sweep on the dispatcher.    *)
(* Times are points of an integer grid.  The geometry of the sweep is not  *)
(* modelled: the contact times axis_aligned_object_collision reports for   *)
(* the colliders of the ball are an input of each sweep.                   *)

TimeSteps == 0..MaxTimeStep

\* The contact times a collision test may report: before the sweep starts
\* (negative), within the step, or at its end.
ContactTimes == -1..MaxTimeStep

\* on_load: the systems in the order they are added, with their event types.
exit_on_escape == 1
reset_round == 2
player_movement == 3
opponent_movement == 4
ball_movement == 5
resolve_collisions_system == 6
end_round_system == 7
set_score == 8

PongSystems ==
    << {"tick_event"},
       {"reset_round_event"},
       {"tick_event"},
       {"tick_event"},
       {"tick_event", "collision_resolved_event"},
       {"collision_detected_event"},
       {"all_collisions_resolved_event"},
       {"score_changed_event"} >>

RECURSIVE add_game_systems(_, _, _)
add_game_systems(systems, first, event_sets) ==
    IF event_sets = << >>
    THEN systems
    ELSE add_game_systems(add_game_system_imp(systems, first, Head(event_sets)),
                          first + 1, Tail(event_sets))

Emit(Event, args) == [Event |-> Event, args |-> args]

\* The events on_load stores after adding the systems.
PongLoadEvents ==
    << Emit("score_changed_event", [increment |-> 0]),
       Emit("score_changed_event", [increment |-> 0]),
       Emit("reset_round_event", [none |-> 0]) >>

\* Stores each of emits in turn through event_pool::store.
RECURSIVE emplace_all(_, _, _)
emplace_all(events, ptr, emits) ==
    IF emits = << >>
    THEN events
    ELSE emplace_all(event_pool_store(events, ptr, Head(emits).Event),
                     ptr + 1, Tail(emits))

\* The pool after the events of emits were constructed at ptr, ptr + 1, ...
allocate_all(pool, ptr, emits) ==
    [p \in DOMAIN pool \cup (ptr..(ptr + Len(emits) - 1)) |->
        IF p >= ptr THEN emits[p - ptr + 1].args ELSE pool[p]]

Min(S) == CHOOSE x \in S : \A y \in S : x <= y

\* A find_collisions whose filter leaves out the test of the sign.
find_collisions_without_sign_test(remaining_time, candidates) ==
    IF remaining_time <= 0
    THEN << Emit("all_collisions_resolved_event", [none |-> 0]) >>
    ELSE LET m_collision_cache ==
                 { contact_time \in candidates : contact_time < remaining_time }
         IN  IF m_collision_cache # {}
             THEN << Emit("collision_detected_event",
                          [contact_time |-> Min(m_collision_cache),
                           previous_remaining_time |-> remaining_time]) >>
             ELSE << Emit("all_collisions_resolved_event", [none |-> 0]) >>

\* ball_movement::find_collisions for the one ball of the scene; candidates
\* are the contact times reported for its colliders.
find_collisions(remaining_time, candidates) ==
    IF remaining_time <= 0
    THEN << Emit("all_collisions_resolved_event", [none |-> 0]) >>
    ELSE LET m_collision_cache ==
                 { contact_time \in candidates :
                       contact_time >= 0 /\ contact_time < remaining_time }
         IN  IF m_collision_cache # {}
             THEN << Emit("collision_detected_event",
                          [contact_time |-> Min(m_collision_cache),
                           previous_remaining_time |-> remaining_time]) >>
             ELSE << Emit("all_collisions_resolved_event", [none |-> 0]) >>

\* resolve_collisions with the contact time added to the remaining time.
resolve_collisions_adds_contact_time(event) ==
    << Emit("collision_resolved_event",
            [remaining_time |-> event.previous_remaining_time + event.contact_time]) >>

\* resolve_collisions with the collision_resolved_event stored a second
\* time, once by the erratic branch and once at the end.
resolve_collisions_stores_twice(event) ==
    << Emit("collision_resolved_event",
            [remaining_time |-> event.previous_remaining_time - event.contact_time]),
       Emit("collision_resolved_event",
            [remaining_time |-> event.previous_remaining_time - event.contact_time]) >>

\* resolve_collisions that passes the remaining time on as it was.
resolve_collisions_keeps_remaining_time(event) ==
    << Emit("collision_resolved_event",
            [remaining_time |-> event.previous_remaining_time]) >>

\* resolve_collisions that stores all_collisions_resolved_event itself before
\* it stores collision_resolved_event.
resolve_collisions_ends_sweep_early(event) ==
    << Emit("all_collisions_resolved_event", [none |-> 0]),
       Emit("collision_resolved_event",
            [remaining_time |-> event.previous_remaining_time - event.contact_time]) >>

\* resolve_collisions, the ball of the event having ball_behavior and a
\* transform_component: slide, reflect, store collision_resolved_event.
resolve_collisions(event) ==
    << Emit("collision_resolved_event",
            [remaining_time |-> event.previous_remaining_time - event.contact_time]) >>

\* end_round: victory tells whether a competitor's victory_check holds.
end_round(victory) ==
    IF victory
    THEN << Emit("score_changed_event", [increment |-> 1]),
            Emit("reset_round_event", [none |-> 0]) >>
    ELSE << >>

\* What the handler of `system` for Event stores when called with event.
pong_system(system, Event, event, candidates, victory) ==
    CASE system = ball_movement /\ Event = "tick_event" ->
             find_collisions(event.time_step, candidates)
      [] system = ball_movement /\ Event = "collision_resolved_event" ->
             find_collisions(event.remaining_time, candidates)
      [] system = resolve_collisions_system -> resolve_collisions(event)
      [] system = end_round_system -> end_round(victory)
      [] OTHER -> << >>

\* The scene after pong::on_load.
PongLoaded ==
    /\ StorageInit
    /\ m_game_systems = add_game_systems(EmptyMap, 1, PongSystems)
    /\ registered = PongSystems
    /\ m_events = emplace_all(<< >>, 1, PongLoadEvents)
    /\ m_pool = allocate_all(EmptyMap, 1, PongLoadEvents)
    /\ origin = [p \in 1..Len(PongLoadEvents) |-> 0]
    /\ dispatched = [p \in 1..Len(PongLoadEvents) |-> 0]
    /\ pc = "idle"
    /\ i = 0
    /\ stack = << >>
    /\ log = << >>
    /\ finished = << >>
    /\ lastDispatch = << >>
    /\ outcome = "none"
    /\ pong = PongIdle

\* A call of a handler as the trace records it: the system, the event it
\* was called with and the events it stored.
Call(system, Event, event, emits) ==
    [system |-> system, Event |-> Event, event |-> event, emits |-> emits]

\* game_engine::run calls tick with the time step of the frame.
PongTick(time_step) ==
    /\ pong.ticks < MaxPongTicks
    /\ Tick([time_step |-> time_step])
    /\ pong' = [PongIdle EXCEPT !.ticks = pong.ticks + 1]

\* The handler invoked last runs to its end: it stores its events and returns.
\* A sweep finds a collision only while the ball has bounces left.
RunPongSystem ==
    /\ InHandler
    /\ LET system == Top.invoked[Len(Top.invoked)]
           event == m_pool[Top.ptr]
       IN  \E candidates \in SUBSET ContactTimes, victory \in BOOLEAN :
             LET emits == pong_system(system, Top.Event, event, candidates, victory)
             IN  /\ \A e \in DOMAIN emits :
                        emits[e].Event = "collision_detected_event"
                            => pong.bounces < MaxBounces
                 /\ m_events' = emplace_all(m_events, NextPtr, emits)
                 /\ m_pool' = allocate_all(m_pool, NextPtr, emits)
                 /\ origin' = origin \o [e \in DOMAIN emits |-> Top.ptr]
                 /\ dispatched' = dispatched \o [e \in DOMAIN emits |-> 0]
                 /\ pong' = [pong EXCEPT
                               !.sweeps = IF system = ball_movement THEN @ + 1 ELSE @,
                               !.bounces = IF system = resolve_collisions_system
                                           THEN @ + 1 ELSE @,
                               !.trace = IF system \in {ball_movement, resolve_collisions_system}
                                         THEN Append(@, Call(system, Top.Event, event, emits))
                                         ELSE @]
    /\ stack' = [stack EXCEPT ![Len(stack)] =
                    [@ EXCEPT !.running = FALSE, !.j = @ + 1]]
    /\ UNCHANGED <<ecsVars, m_game_systems, pc, i, registered, log, finished,
                   lastDispatch, outcome>>

PongNext ==
    \/ \E time_step \in TimeSteps : PongTick(time_step)
    \/ EnterProcessEvent /\ UNCHANGED pong
    \/ InvokeSystem /\ UNCHANGED pong
    \/ RunPongSystem
    \/ LeaveProcessEvent /\ UNCHANGED pong
    \/ TickReturn /\ UNCHANGED pong

SpecPong == PongLoaded /\ [][PongNext]_vars

\* The scene is driven by one thread that keeps running: a step that can be
\* taken is taken.
SpecPongFair == SpecPong /\ WF_vars(PongNext)

\* C10: within a tick find_collisions has run at most once more than the
\* ball has bounced, and a tick that has started returns.
C10_ChainTerminates ==
    /\ [](pong.sweeps <= pong.bounces + 1)
    /\ (pc = "drain") ~> (pc = "idle" /\ outcome = "returned")

\* A tick with a chain of MaxBounces bounces has returned after
\* MaxBounces + 1 sweeps.
C10_Witness ==
    /\ outcome = "returned"
    /\ pong.bounces = MaxBounces
    /\ pong.sweeps = MaxBounces + 1

\* The remaining time a call of ball_movement sweeps with.
RemainingTime(call) ==
    IF call.Event = "tick_event" THEN call.event.time_step ELSE call.event.remaining_time

Sweeps == { k \in DOMAIN pong.trace : pong.trace[k].system = ball_movement }

Resolutions == { k \in DOMAIN pong.trace : pong.trace[k].system = resolve_collisions_system }

\* The sweep that detected the collision resolved by call k of the trace.
SweepOf(k) == CHOOSE j \in Sweeps : j < k /\ \A h \in Sweeps : h < k => h <= j

\* The remaining time of the collision_resolved_event stored by call k.
ResolvedTime(k) == pong.trace[k].emits[1].args.remaining_time

\* C11 as stated: every collision_resolved_event carries a remaining time
\* strictly smaller than the remaining time of the sweep that detected the
\* collision.
C11_StrictlyDecreases ==
    \A k \in Resolutions :
        ResolvedTime(k) < RemainingTime(pong.trace[SweepOf(k)])

\* C11 amended: every collision_resolved_event carries the remaining time
\* of the sweep that detected the collision less the contact time; it is
\* positive, never larger than the remaining time of that sweep, and equal
\* to it when the contact time is zero.
C11_NeverIncreases ==
    \A k \in Resolutions :
        LET sweep == pong.trace[SweepOf(k)]
            contact_time == pong.trace[k].event.contact_time
        IN  /\ Len(pong.trace[k].emits) = 1
            /\ ResolvedTime(k) = RemainingTime(sweep) - contact_time
            /\ ResolvedTime(k) > 0
            /\ ResolvedTime(k) <= RemainingTime(sweep)
            /\ contact_time = 0 => ResolvedTime(k) = RemainingTime(sweep)

\* A tick of two bounces: the first after one unit of time, which shortens
\* the remaining time, the second at contact time zero, which does not.
C11_Witness ==
    /\ Cardinality(Resolutions) = 2
    /\ \E k, h \in Resolutions :
          /\ k < h
          /\ pong.trace[k].event.contact_time = 1
          /\ ResolvedTime(k) = 1
          /\ pong.trace[h].event.contact_time = 0
          /\ ResolvedTime(h) = 1

\* The rounds of find_collisions that detected a collision.
Detections ==
    { k \in Sweeps : \E e \in DOMAIN pong.trace[k].emits :
                         pong.trace[k].emits[e].Event = "collision_detected_event" }

\* C19: every collision_detected_event carries a contact time that is not
\* negative and is smaller than the remaining time of the round of
\* find_collisions that emitted it, and carries that remaining time.
C19_ContactTimeInRange ==
    \A k \in Detections :
        LET call == pong.trace[k]
        IN  /\ Len(call.emits) = 1
            /\ call.emits[1].args.contact_time >= 0
            /\ call.emits[1].args.contact_time < RemainingTime(call)
            /\ call.emits[1].args.previous_remaining_time = RemainingTime(call)

\* Two rounds of one tick detected a collision: the first at contact time 1
\* of a remaining time 2, the second at contact time 0 of the remaining 1.
C19_Witness ==
    \E k, h \in Detections :
        /\ k < h
        /\ RemainingTime(pong.trace[k]) = 2
        /\ pong.trace[k].emits[1].args.contact_time = 1
        /\ RemainingTime(pong.trace[h]) = 1
        /\ pong.trace[h].emits[1].args.contact_time = 0

-----------------------------------------------------------------------------
(* resolve_collisions: the velocity of the ball                             *)

PaddleCollisionErraticism == 4

\* The components of the velocity a ball starts a round with.
Speeds == {-500, -100, 0, 100, 500}

Velocities == { <<x, y, z>> : x, y, z \in Speeds }

\* The contact normals ray_bounding_box_collision reports: a unit vector
\* along one axis.
ContactNormals ==
    { <<1, 0, 0>>, <<-1, 0, 0>>, <<0, 1, 0>>, <<0, -1, 0>>, <<0, 0, 1>>, <<0, 0, -1>> }

\* The offsets of the contact point from the middle of a paddle; none when
\* the collider has no transform_component.
Diffs == { << >>, <<-1>>, <<0>>, <<1>> }

\* vec3::dot
dot(a, b) == a[1] * b[1] + a[2] * b[2] + a[3] * b[3]

\* A reflection that subtracts the projection once, not twice.
new_velocity_subtracts_once(velocity, contact_normal, type, diff) ==
    LET reflected == [n \in 1..3 |->
                         velocity[n] - dot(velocity, contact_normal) * contact_normal[n]]
    IN  IF type = "erratic" /\ diff # << >>
        THEN [reflected EXCEPT ![2] = @ + PaddleCollisionErraticism * diff[1]]
        ELSE reflected

\* The velocity resolve_collisions stores in the ball.  The velocity is
\* widened to double, changed and narrowed to float again; both conversions
\* are exact on the whole numbers used here.
new_velocity(velocity, contact_normal, type, diff) ==
    LET \* new_velocity -= 2 * new_velocity.dot(contact_normal) * contact_normal
        reflected == [n \in 1..3 |->
                         velocity[n] - 2 * dot(velocity, contact_normal) * contact_normal[n]]
    IN  \* new_velocity.y() += PaddleCollisionErraticism * diff
        IF type = "erratic" /\ diff # << >>
        THEN [reflected EXCEPT ![2] = @ + PaddleCollisionErraticism * diff[1]]
        ELSE reflected

\* The ball before its first collision.
Ball(velocity) ==
    [velocity |-> velocity, bounces |-> 0, before |-> velocity,
     contact_normal |-> <<0, 0, 0>>, type |-> "none", diff |-> << >>]

\* resolve_collisions called for a collision of the ball.
ResolveCollision(contact_normal, type, diff) ==
    /\ pong.bounces < MaxBounces
    /\ pong' = [velocity |-> new_velocity(pong.velocity, contact_normal, type, diff),
                bounces |-> pong.bounces + 1,
                before |-> pong.velocity,
                contact_normal |-> contact_normal,
                type |-> type,
                diff |-> diff]
    /\ UNCHANGED <<ecsVars, sceneVars>>

ReflectInit ==
    /\ StorageInit
    /\ DispatcherInit
    /\ \E velocity \in Velocities : pong = Ball(velocity)

ReflectNext ==
    \/ \E contact_normal \in ContactNormals : ResolveCollision(contact_normal, "normal", << >>)
    \/ \E contact_normal \in ContactNormals, diff \in Diffs :
          ResolveCollision(contact_normal, "erratic", diff)

SpecReflect == ReflectInit /\ [][ReflectNext]_vars

\* C20: a collision of type normal leaves the ball with its velocity
\* reflected about the contact normal: the component along the normal is
\* negated, the other two are what they were.
C20_Reflects ==
    pong.type = "normal" =>
        \A n \in 1..3 :
            pong.velocity[n] = IF pong.contact_normal[n] # 0
                               THEN 0 - pong.before[n]
                               ELSE pong.before[n]

\* The example of the claim.
C20_Witness ==
    /\ pong.type = "normal"
    /\ pong.before = <<500, -100, 0>>
    /\ pong.contact_normal = <<-1, 0, 0>>
    /\ pong.velocity = <<-500, -100, 0>>

-----------------------------------------------------------------------------
(* game_scene::create_entity and game_scene::destroy_entity                *)

\* The maps of storages destroy_entity walks in the snapshots of the sources:
\* "entity stores"  m_entity_component_stores: the singleton storages are kept
\*                  in a map of their own and are not visited;
\* "clearing"       m_component_stores, one map of all storages: the singleton
\*                  storage overrides remove(entity_id) and resets m_data;
\* "ignoring"       m_component_managers, one map of all managers: the base
\*                  class remove(entity) does nothing, the singleton manager
\*                  does not override it, and there are no relationships.
Registries == {"entity stores", "clearing", "ignoring"}

\* component_manager<Component>::remove(en) of the entity component manager
\* behind m_component_managers.
component_manager_remove(st, en) ==
    IF en \in DOMAIN st.m_index_map
    THEN LET index == st.m_index_map[en]
             \* swap(m_data[iter->second], m_data.back())
             swapped == Swap(st.m_data, index, Len(st.m_data))
             \* m_index_map[m_data.back().en] = iter->second
             repointed == MapPut(st.m_index_map, swapped[Len(swapped)].entity, index)
         IN  \* m_data.pop_back(); m_index_map.erase(iter)
             [m_data |-> SubSeq(swapped, 1, Len(swapped) - 1),
              m_index_map |-> MapErase(repointed, en)]
    ELSE st

\* remove(entity) called through the base class on the singleton storage.
singleton_remove_entity(reg, m_data) ==
    IF reg = "clearing" THEN singleton_remove ELSE m_data

\* for (auto&& manager : registry) manager.second->remove(entity);
\* order is the iteration order of the inner map of the relationship storage.
destroy_entity(reg, storages, entity, order) ==
    [store |-> [T \in DOMAIN storages.store |->
                   IF reg = "ignoring"
                   THEN component_manager_remove(storages.store[T], entity)
                   ELSE entity_remove(storages.store[T], entity)],
     rel |-> relationship_remove(storages.rel, entity, order),
     single |-> IF reg = "entity stores" THEN storages.single
                ELSE singleton_remove_entity(reg, storages.single)]

NoOp == [op |-> "none", type |-> "none", entity |-> NoEntity, rows |-> 0]

\* A create_entity that returns m_last_entity++, the id before the increment.
CreateEntity_post_increment ==
    /\ m_last_entity' = m_last_entity + 1
    /\ created' = Append(created, m_last_entity)
    /\ lastOp' = [op |-> "create", type |-> "none", entity |-> m_last_entity, rows |-> 0,
                  after |-> [op |-> lastOp.op, entity |-> lastOp.entity, rows |-> lastOp.rows]]
    /\ view' = << >>
    /\ UNCHANGED <<store, rel, single, shadow, relShadow, registry, unwound, engineVars,
                   sceneVars, pong>>

\* return ++m_last_entity;
CreateEntity ==
    /\ m_last_entity' = m_last_entity + 1
    /\ created' = Append(created, m_last_entity')
    /\ lastOp' = [op |-> "create", type |-> "none", entity |-> m_last_entity', rows |-> 0,
                  after |-> [op |-> lastOp.op, entity |-> lastOp.entity, rows |-> lastOp.rows]]
    /\ view' = << >>
    /\ UNCHANGED <<store, rel, single, shadow, relShadow, registry, unwound, engineVars,
                   sceneVars, pong>>

DestroyEntity(e) ==
    \E order \in Orders(InnerKeys(rel, e)) :
        LET after == destroy_entity(registry, [store |-> store, rel |-> rel, single |-> single], e, order)
        IN  /\ store' = after.store
            /\ rel' = after.rel
            /\ single' = after.single
            /\ shadow' = [T \in EntityTypes |-> MapErase(shadow[T], e)]
            /\ relShadow' = [p \in { q \in DOMAIN relShadow : q[1] # e } |-> relShadow[p]]
            /\ lastOp' = [op |-> "destroy", type |-> registry, entity |-> e,
                          rows |-> Cardinality({ T \in EntityTypes : e \in DOMAIN shadow[T] })
                                   + Cardinality({ q \in DOMAIN relShadow : q[1] = e }),
                          single |-> single]
            /\ view' = << >>
            /\ UNCHANGED otherVars

\* No index map of an entity storage points past the end of its vector.  An
\* access through such an index is undefined: the scene is followed up to
\* the first state that has one.
Intact == \A T \in EntityTypes : IndexInRange(store[T])

\* The ids a scene hands out and the id no entity has.
SceneEntities == 0..MaxRelEntity

DestroyInit == StoragesEmpty /\ registry \in Registries /\ SceneInit

\* The rows the storages of the scene hold, all together.
SceneRows == Len(rel.m_data) + Cardinality({ p \in EntityTypes \X SceneEntities : p[2] \in DOMAIN store[p[1]].m_index_map })

DestroyNext ==
    \/ /\ m_last_entity < MaxRelEntity
       /\ CreateEntity
    \/ \E T \in EntityTypes : \E e \in 1..m_last_entity :
          /\ Intact
          /\ e \in DOMAIN shadow[T] \/ SceneRows < MaxQueryRows
          /\ set_component(T, e, 1)
          /\ lastOp' = NoOp
    \/ \E e, r \in 1..m_last_entity :
          /\ registry # "ignoring"
          /\ <<e, r>> \in DOMAIN relShadow \/ SceneRows < MaxQueryRows
          /\ set_relationship(e, r, 1)
          /\ lastOp' = NoOp
    \/ set_singleton(1) /\ lastOp' = NoOp
    \/ set_external_component(1) /\ lastOp' = NoOp
    \/ \E e \in SceneEntities : Intact /\ DestroyEntity(e)

SpecDestroy == DestroyInit /\ [][DestroyNext]_vars

\* What get_component<T>(x) must return by the history of the scene.
ExpectedComponent(T, x) ==
    IF x \in DOMAIN shadow[T] THEN << EntityRow(x, shadow[T][x]) >> ELSE << >>

\* C12: after destroy_entity(e), get_component<T>(e) is absent for every
\* entity component type T, the relationship rows owned by e are gone, and
\* every other entity has the components and relationship rows it had, each
\* readable through an index inside its storage.
C12_DestroyRemovesRows ==
    lastOp.op = "destroy" =>
        /\ Intact
        /\ RelIndexInRange(rel)
        /\ \A T \in EntityTypes : entity_get(store[T], lastOp.entity) = << >>
        /\ relationship_get(rel, lastOp.entity) = EmptyMap
        /\ \A k \in 1..Len(relationship_all(rel)) :
               relationship_all(rel)[k].entity # lastOp.entity
        /\ \A T \in EntityTypes : \A x \in SceneEntities \ {lastOp.entity} :
               entity_get(store[T], x) = ExpectedComponent(T, x)
        /\ \A o \in RelEntities \ {lastOp.entity} :
               relationship_get(rel, o) = ExpectedRowsOf(o)

\* C13: destroy_entity(e) leaves the singleton as it was, for every e
\* including NoEntity and in every map of storages the scene may keep.
C13_SingletonKept ==
    lastOp.op = "destroy" => single = lastOp.single

\* C15: create_entity never returns NoEntity, and every id it returns is
\* larger than every id it returned before in the scene, whatever was
\* destroyed in between.
C15_FreshIds ==
    /\ \A k \in DOMAIN created : created[k] # NoEntity
    /\ \A k, h \in DOMAIN created : k < h => created[k] < created[h]
    /\ lastOp.op = "create" =>
           /\ lastOp.entity = created[Len(created)]
           /\ lastOp.entity = m_last_entity

\* The second id was handed out right after the first was destroyed with a
\* row in a storage: it is not the first again.
C15_Witness ==
    /\ created = <<1, 2>>
    /\ lastOp.op = "create"
    /\ lastOp.entity = 2
    /\ lastOp.after = [op |-> "destroy", entity |-> 1, rows |-> 1]
    /\ \A T \in EntityTypes : 1 \notin DOMAIN shadow[T]

-----------------------------------------------------------------------------
(* The singleton storage on its own: every sequence of add_or_set, of       *)
(* either kind, and remove on the storage of S, among operations on the     *)
(* entity storage of A.                                                     *)

\* The latest operation on the singleton, none before the first.
LastSingletonOp ==
    IF "value" \in DOMAIN lastOp
    THEN [op |-> lastOp.op, value |-> lastOp.value]
    ELSE [op |-> "none", value |-> 0]

SingletonOp(op, value) ==
    [op |-> op, type |-> "S", entity |-> NoEntity, rows |-> 0,
     value |-> value, before |-> LastSingletonOp]

SetSingleton(v) == set_singleton(v) /\ lastOp' = SingletonOp("set", v)

SetExternalComponent(p) == set_external_component(p) /\ lastOp' = SingletonOp("set external", p)

RemoveSingleton == remove_singleton /\ lastOp' = SingletonOp("remove", 0)

SingletonNext ==
    \/ \E v \in Values : SetSingleton(v)
    \/ \E p \in Pointers : SetExternalComponent(p)
    \/ RemoveSingleton
    \/ \E e \in Entities : set_component("A", e, 1) /\ UNCHANGED lastOp
    \/ \E e \in Entities : remove_component("A", e) /\ UNCHANGED lastOp

SpecSingleton == Init /\ [][SingletonNext]_vars

\* C14: get() on the singleton storage returns at most one value, and it is
\* what the latest operation on the singleton left: the value of the latest
\* set (the pointer itself for an external pointer, so nothing for a null
\* pointer) whatever was set before it, nothing after a remove, and nothing
\* when the singleton was never set.
C14_SingletonReplace ==
    /\ Len(singleton_get(single)) <= 1
    /\ LastSingletonOp.op = "none" => singleton_get(single) = << >>
    /\ LastSingletonOp.op = "remove" => singleton_get(single) = << >>
    /\ LastSingletonOp.op = "set" =>
           singleton_get(single) = << [kind |-> "owned", val |-> LastSingletonOp.value] >>
    /\ LastSingletonOp.op = "set external" =>
           singleton_get(single) =
               IF LastSingletonOp.value = nullptr
               THEN << >>
               ELSE << [kind |-> "external", val |-> LastSingletonOp.value] >>

\* An owned value was set, then an external pointer of another value, and
\* get() answers the pointer.
C14_Witness ==
    /\ LastSingletonOp = [op |-> "set external", value |-> 2]
    /\ lastOp.before = [op |-> "set", value |-> 1]
    /\ singleton_get(single) = << [kind |-> "external", val |-> 2] >>
    /\ shadow["A"] # EmptyMap

-----------------------------------------------------------------------------
(* The dispatcher with handlers that set components and handlers that      *)
(* throw.                                                                   *)

\* The running handler calls scene.set_component(Component{ e, v }).
HandlerSetComponent(T, e, v) ==
    /\ InHandler
    /\ set_component(T, e, v)
    /\ UNCHANGED lastOp

\* The events one scene stores here, the tick events included.
MaxThrowEvents == MaxQueryRows + 1

ThrowNext ==
    \/ AddGameSystem(GameEvents) /\ UNCHANGED pong
    \/ NextPtr <= MaxThrowEvents /\ Tick(1) /\ UNCHANGED pong
    \/ EnterProcessEvent /\ UNCHANGED pong
    \/ InvokeSystem /\ UNCHANGED pong
    \/ NextPtr <= MaxThrowEvents /\ HandlerEmit("game_event", 0) /\ UNCHANGED pong
    \/ \E e \in RelEntities : HandlerSetComponent("A", e, 1)
    \/ HandlerReturn /\ UNCHANGED pong
    \/ HandlerThrow /\ UNCHANGED pong
    \/ LeaveProcessEvent /\ UNCHANGED pong
    \/ TickReturn /\ UNCHANGED pong

SpecThrow == Init /\ [][ThrowNext]_vars

\* The place in the queue of the event with this pointer.
PositionOf(ptr) == CHOOSE k \in DOMAIN m_events : m_events[k].ptr = ptr

\* C16: when a handler has thrown, tick is no longer running and no call of
\* process_event is left; of the subscribers of the event being dispatched
\* those after the thrower were not called and the dispatch did not
\* complete; no event behind it in the queue was dispatched in that call of
\* tick; and every component the handlers had set is in its storage.
C16_ThrowPropagates ==
    outcome = "threw" =>
        /\ pc = "idle"
        /\ stack = << >>
        /\ Len(unwound) = 1
        /\ LET frame == unwound[1]
               subscribers == Subscribers(m_game_systems, frame.Event)
           IN  /\ frame.running
               /\ frame.j <= Len(subscribers)
               /\ frame.invoked = SubSeq(subscribers, 1, frame.j)
               /\ \A k \in DOMAIN finished : finished[k] # frame.ptr
               /\ \E k \in DOMAIN m_events : m_events[k].ptr = frame.ptr
               /\ \A k \in DOMAIN m_events :
                      k > PositionOf(frame.ptr) =>
                          \A h \in DOMAIN log : log[h] # m_events[k].ptr
        /\ IndexInRange(store["A"])
        /\ \A e \in RelEntities : entity_get(store["A"], e) = ExpectedComponent("A", e)

\* In the first tick of the scene the first of two subscribers of the tick
\* event set a component, stored an event and threw: the second subscriber
\* was not called, the stored event was not dispatched, the component is there.
C16_Witness ==
    /\ outcome = "threw"
    /\ Len(origin) = 2
    /\ Len(m_events) = 2
    /\ unwound[1].ptr = m_events[1].ptr
    /\ unwound[1].j = 1
    /\ Len(Subscribers(m_game_systems, "tick_event")) = 2
    /\ dispatched = <<1, 0>>
    /\ DOMAIN shadow["A"] = {1}
    /\ entity_get(store["A"], 1) = << EntityRow(1, 1) >>

-----------------------------------------------------------------------------
(* The entity storage of A and the relationship storage of R, with get and *)
(* remove called for entities that have rows and entities that have none.  *)

\* How many rows the entity has in the storage of the type.
RowsOf(T, e) ==
    IF T = "R"
    THEN Cardinality({ q \in DOMAIN relShadow : q[1] = e })
    ELSE IF e \in DOMAIN shadow[T] THEN 1 ELSE 0

\* The record of a get or a remove: the rows the entity had and the storages
\* as they were when it was called.
Probe(op, T, e) ==
    [op |-> op, type |-> T, entity |-> e, rows |-> RowsOf(T, e),
     before |-> [store |-> store, rel |-> rel]]

\* get_component<A>(e)
get_component(T, e) ==
    /\ view' = << entity_get(store[T], e) >>
    /\ UNCHANGED <<store, rel, single, shadow, relShadow, otherVars>>

\* The storage of R asked for the rows of the owner e.
get_relationships(e) ==
    /\ view' = << relationship_get(rel, e) >>
    /\ UNCHANGED <<store, rel, single, shadow, relShadow, otherVars>>

MissingNext ==
    \/ \E e \in RelEntities, v \in Values :
          /\ e \in DOMAIN shadow["A"] \/ SceneRows < MaxQueryRows
          /\ set_component("A", e, v)
          /\ lastOp' = NoOp
    \/ \E e, r \in RelEntities :
          /\ <<e, r>> \in DOMAIN relShadow \/ SceneRows < MaxQueryRows
          /\ set_relationship(e, r, 1)
          /\ lastOp' = NoOp
    \/ \E e \in SceneEntities : remove_component("A", e) /\ lastOp' = Probe("remove", "A", e)
    \/ \E e \in SceneEntities : remove_relationship(e) /\ lastOp' = Probe("remove", "R", e)
    \/ \E e \in SceneEntities : get_component("A", e) /\ lastOp' = Probe("get", "A", e)
    \/ \E e \in SceneEntities : get_relationships(e) /\ lastOp' = Probe("get", "R", e)

SpecMissing == Init /\ [][MissingNext]_vars

\* C17: a get or a remove for an entity without a row in the storage leaves
\* both storages as they were, vectors and index maps alike; the get answers
\* absent on the entity storage and no rows on the relationship storage.
C17_MissingIsNoOp ==
    (lastOp.op \in {"get", "remove"} /\ lastOp.rows = 0) =>
        /\ store = lastOp.before.store
        /\ rel = lastOp.before.rel
        /\ IndexInRange(store["A"])
        /\ RelIndexInRange(rel)
        /\ (lastOp.op = "get" /\ lastOp.type = "A") => view = << << >> >>
        /\ (lastOp.op = "get" /\ lastOp.type = "R") => view = << EmptyMap >>

\* remove was called on the relationship storage for an owner whose rows had
\* all been removed before (its inner map is kept, empty) while another
\* owner and the entity storage hold rows.
C17_Witness ==
    /\ lastOp.op = "remove"
    /\ lastOp.type = "R"
    /\ lastOp.rows = 0
    /\ lastOp.entity \in DOMAIN rel.m_index_map
    /\ Len(rel.m_data) = 1
    /\ Len(store["A"].m_data) = 1

-----------------------------------------------------------------------------
(* query_join: the query <A, B, S> joined with the unrelated query <B>     *)

\* gather_components<B>(manager): B is the primary component and the only
\* one, so every row of B is kept, as a tuple of one element.
gather_components_primary(T) ==
    [k \in 1..Len(entity_all(store[T])) |-> << entity_all(store[T])[k] >>]

\* A product that pairs the k-th element of one range with the k-th of the
\* other (views::zip for cartesian_product_view).
cartesian_product_view_zips(first, second) ==
    [k \in 1..Min({Len(first), Len(second)}) |-> << first[k], second[k] >>]

\* std::ranges::cartesian_product_view{ first, second }: every pair, the
\* last range varying fastest.
cartesian_product_view(first, second) ==
    [k \in 1..(Len(first) * Len(second)) |->
        << first[((k - 1) \div Len(second)) + 1], second[((k - 1) % Len(second)) + 1] >>]

\* make_flat_tuple(get<0>(pairs), get<1>(pairs)): std::tuple_cat of the two
\* tuples.
make_flat_tuple(a, b) == a \o b

\* query_join::make_view
make_view(previous_view, T) ==
    LET pairs == cartesian_product_view(previous_view, gather_components_primary(T))
    IN  [k \in 1..Len(pairs) |-> make_flat_tuple(pairs[k][1], pairs[k][2])]

\* query<A, B, S>().join<B>() iterated to its end
ExecJoin ==
    /\ view = << >>
    /\ view' = << make_view(gather_components, "B") >>
    /\ UNCHANGED <<store, rel, single, shadow, relShadow, lastOp, otherVars>>

JoinNext ==
    \/ \E T \in EntityTypes, e \in Entities : set_component(T, e, 1) /\ UNCHANGED lastOp
    \/ \E T \in EntityTypes, e \in Entities : remove_component(T, e) /\ UNCHANGED lastOp
    \/ set_singleton(1) /\ UNCHANGED lastOp
    \/ remove_singleton /\ UNCHANGED lastOp
    \/ ExecJoin

SpecJoin == Init /\ [][JoinNext]_vars

\* C18: the join holds, for every tuple a of the first query and every row b
\* of the second, exactly one tuple, which is a followed by b as one flat
\* tuple, and nothing else: |A| * |B| tuples, none when either side is empty.
C18_CrossJoin ==
    view # << >> =>
        LET A == gather_components
            B == entity_all(store["B"])
            result == view[1]
        IN  /\ Len(result) = Len(A) * Len(B)
            /\ \A a \in 1..Len(A) : \A b \in 1..Len(B) :
                   Cardinality({ k \in 1..Len(result) :
                       result[k] = << A[a][1], A[a][2], A[a][3], B[b] >> }) = 1
            /\ (Len(A) = 0 \/ Len(B) = 0) => result = << >>

\* Two tuples of the first query joined with three rows of the second.
C18_Witness ==
    /\ view # << >>
    /\ Len(gather_components) = 2
    /\ Len(entity_all(store["B"])) = 3
    /\ Len(view[1]) = 6
    /\ Len(view[1][1]) = 4

-----------------------------------------------------------------------------
(* detail::component_manager<Component> of ecs_manager, entity component:   *)
(* every sequence of add_or_set, remove and get on the manager of A.        *)

\* The scene has read or written m_data through an index past its end: what
\* happens from there on is undefined and the scene is not followed further.
Undefined == lastOp.op = "undefined"

\* add_or_set(Component{ en, v }); the code is that of the storage above.
ManagerAddOrSet(en, v) ==
    /\ IndexInRange(store["A"])
    /\ set_component("A", en, v)
    /\ lastOp' = [op |-> IF en \in DOMAIN shadow["A"] THEN "overwrite" ELSE "set",
                  type |-> "A", entity |-> en, rows |-> 1]

\* remove(en)
ManagerRemove(en) ==
    /\ IndexInRange(store["A"])
    /\ store' = [store EXCEPT !["A"] = component_manager_remove(store["A"], en)]
    /\ shadow' = [shadow EXCEPT !["A"] = MapErase(shadow["A"], en)]
    /\ lastOp' = [op |-> "remove", type |-> "A", entity |-> en,
                  rows |-> IF en \in DOMAIN shadow["A"] THEN 1 ELSE 0]
    /\ view' = << >>
    /\ UNCHANGED <<rel, single, relShadow, otherVars>>

\* get(en)
ManagerGet(en) ==
    /\ IndexInRange(store["A"])
    /\ view' = << entity_get(store["A"], en) >>
    /\ lastOp' = [op |-> "get", type |-> "A", entity |-> en,
                  rows |-> IF en \in DOMAIN shadow["A"] THEN 1 ELSE 0]
    /\ UNCHANGED <<store, rel, single, shadow, relShadow, otherVars>>

\* The next call on a manager that holds an index past the end of m_data:
\* get(en) for that entity reads past the end, and so does every later swap
\* with m_data.back() on its behalf.
ManagerOutOfBounds(en) ==
    /\ ~Undefined
    /\ en \in DOMAIN store["A"].m_index_map
    /\ store["A"].m_index_map[en] > Len(store["A"].m_data)
    /\ lastOp' = [op |-> "undefined", type |-> "A", entity |-> en, rows |-> 1]
    /\ view' = << >>
    /\ UNCHANGED <<store, rel, single, shadow, relShadow, otherVars>>

ManagerInit == StoragesEmpty /\ registry = "ignoring" /\ SceneInit

ManagerNext ==
    \/ \E en \in Entities, v \in Values : ManagerAddOrSet(en, v)
    \/ \E en \in Entities : ManagerRemove(en)
    \/ \E en \in Entities : ManagerGet(en)
    \/ \E en \in Entities : ManagerOutOfBounds(en)

SpecManager == ManagerInit /\ [][ManagerNext]_vars

\* C21: after any sequence of add_or_set and remove on the manager, every
\* index it holds is a slot of the vector and get(x) is the row last set for
\* x, for every entity x that has one.
C21_ManagerSwapRemove ==
    /\ IndexInRange(store["A"])
    /\ \A x \in DOMAIN shadow["A"] :
           entity_get(store["A"], x) = << EntityRow(x, shadow["A"][x]) >>

-----------------------------------------------------------------------------
(* add_or_set on the entity storage of A, with the storage as it was before *)
(* the call kept beside it.                                                 *)

AddOrSet(e, v) ==
    /\ set_component("A", e, v)
    /\ lastOp' = [op |-> IF e \in DOMAIN store["A"].m_index_map THEN "overwrite" ELSE "append",
                  type |-> "A", entity |-> e, rows |-> 1, value |-> v,
                  before |-> store["A"]]

AddOrSetNext ==
    \/ \E e \in Entities, v \in Values : AddOrSet(e, v)
    \/ \E e \in Entities : remove_component("A", e) /\ lastOp' = NoOp

SpecAddOrSet == Init /\ [][AddOrSetNext]_vars

\* C22: add_or_set for an entity that has a row writes the new value into
\* the slot of that entity and changes neither the number of rows nor the
\* index map nor any other slot; for an entity without a row it appends the
\* row behind the rows there were and maps the entity to that last slot,
\* every earlier row and index staying as it was.
C22_AddOrSetFrame ==
    LET st == store["A"]
        before == lastOp.before
        row == EntityRow(lastOp.entity, lastOp.value)
    IN  /\ lastOp.op = "overwrite" =>
               /\ Len(st.m_data) = Len(before.m_data)
               /\ st.m_index_map = before.m_index_map
               /\ st.m_data[st.m_index_map[lastOp.entity]] = row
               /\ \A k \in 1..Len(st.m_data) :
                      k # st.m_index_map[lastOp.entity] => st.m_data[k] = before.m_data[k]
        /\ lastOp.op = "append" =>
               /\ Len(st.m_data) = Len(before.m_data) + 1
               /\ st.m_data[Len(st.m_data)] = row
               /\ st.m_index_map[lastOp.entity] = Len(st.m_data)
               /\ \A k \in 1..Len(before.m_data) : st.m_data[k] = before.m_data[k]
               /\ \A x \in DOMAIN before.m_index_map : st.m_index_map[x] = before.m_index_map[x]
               /\ DOMAIN st.m_index_map = DOMAIN before.m_index_map \cup {lastOp.entity}

\* The row in the first of three slots was overwritten with another value.
C22_Witness ==
    /\ lastOp.op = "overwrite"
    /\ Len(store["A"].m_data) = 3
    /\ store["A"].m_index_map[lastOp.entity] = 1
    /\ lastOp.before.m_data[1].value # lastOp.value

(***************************************************************************)
(* A relationship requirement behind a primary entity component:           *)
(* query<A, related<R, B>> resolved by get_entity_queryables.              *)
(***************************************************************************)

\* An is_not_null that takes a range without elements for a null pointer.
is_not_null_range_with_elements(t) == DOMAIN t # {}

\* is_not_null of a value that is neither nullptr_t nor a pointer (the view
\* returned for related<R, B>): the last branch of the if constexpr chain.
is_not_null_range(t) == TRUE

\* get_queryables_for_entity<related<R, B>>(manager, entity): the optional
\* tuple of the one resolved requirement, as a sequence of length at most one.
get_queryables_for_entity_related(entity) ==
    LET results == << related_one(entity) >>
    IN  IF \A n \in 1..Len(results) : is_not_null_range(results[n])
        THEN << results >>
        ELSE << >>

\* get_entity_queryables<A, related<R, B>>(manager): transform every row of
\* the primary component, filter on has_value, transform to the value.
get_entity_queryables ==
    LET primary == entity_all(store["A"])
        opts == [k \in 1..Len(primary) |->
                    LET queryables == get_queryables_for_entity_related(primary[k].entity)
                    IN  IF queryables = << >> THEN << >>
                        ELSE << make_flat_tuple(<< primary[k] >>, queryables[1]) >>]
        kept == SelectSeq(opts, LAMBDA opt : opt # << >>)
    IN  [k \in 1..Len(kept) |-> kept[k][1]]

\* query<A, related<R, B>> iterated to its end
ExecHasRelatedQuery ==
    /\ view = << >>
    /\ view' = << get_entity_queryables >>
    /\ UNCHANGED <<store, rel, single, shadow, relShadow, lastOp, otherVars>>

\* The rows a scene of this section holds at most, over all its storages.
MaxHasRelatedRows == MaxQueryRows + 1

HasRelatedNext ==
    \/ \E e \in RelEntities, r \in RelEntities :
           SceneRows < MaxHasRelatedRows /\ set_relationship(e, r, 1) /\ UNCHANGED lastOp
    \/ \E e \in RelEntities : remove_relationship(e) /\ UNCHANGED lastOp
    \/ \E T \in EntityTypes, e \in RelEntities :
           SceneRows < MaxHasRelatedRows /\ set_component(T, e, 1) /\ UNCHANGED lastOp
    \/ \E T \in EntityTypes, e \in RelEntities : remove_component(T, e) /\ UNCHANGED lastOp
    \/ ExecHasRelatedQuery

SpecHasRelated == Init /\ [][HasRelatedNext]_vars

\* The related rows the query is expected to pair with entity e: the stored
\* rows (e, x) whose related entity x has the component B.
ExpectedRelated(e) ==
    { x \in RelEntities : <<e, x>> \in DOMAIN relShadow /\ x \in DOMAIN shadow["B"] }

\* C23: query<A, related<R, B>> yields exactly one tuple for every entity
\* that has A, whatever rows of R it owns; the related sequence of the tuple
\* holds the rows (e, x) whose x has B and is empty when there is none.
C23_PrimaryKept ==
    view # << >> =>
        /\ Len(view[1]) = Cardinality(DOMAIN shadow["A"])
        /\ \A e \in DOMAIN shadow["A"] :
              \E k \in 1..Len(view[1]) :
                  /\ view[1][k][1] = EntityRow(e, shadow["A"][e])
                  /\ DOMAIN view[1][k][2] = ExpectedRelated(e)
                  /\ \A x \in ExpectedRelated(e) :
                        view[1][k][2][x] = << RelRow(e, x, relShadow[<<e, x>>]),
                                              EntityRow(x, shadow["B"][x]) >>

\* Entity 1 has A and owns no row of R; entity 2 has A and owns one row whose
\* related entity has no B.  Both are returned, each with no related row.
C23_Witness ==
    /\ view # << >>
    /\ DOMAIN shadow["A"] = {1, 2}
    /\ DOMAIN shadow["B"] = {}
    /\ DOMAIN relShadow = {<<2, 1>>}
    /\ Len(view[1]) = 2
    /\ \A k \in 1..2 : DOMAIN view[1][k][2] = {}

(***************************************************************************)
(* The queue a throwing handler leaves behind, and the tick after it.      *)
(***************************************************************************)

\* The events dispatched so far by the running or latest tick are the front
\* of the queue, in queue order.
DispatchedFromFront ==
    /\ Len(log) <= Len(m_events)
    /\ \A k \in 1..Len(log) : m_events[k].ptr = log[k]

\* C24: when a handler throws, the events of that tick, dispatched or not,
\* stay queued, and the next tick dispatches them again from the front of
\* the queue before its own tick event: it is never cut short at an event
\* that an earlier process_event has destroyed and deallocated.
C24_LeftOversRedispatched ==
    /\ outcome = "threw" => DispatchedFromFront
    /\ pc \in {"drain", "aborted"} => DispatchedFromFront
    /\ pc # "aborted"

(***************************************************************************)
(* Events stored while no tick is running.                                 *)
(***************************************************************************)

\* The place in the queue of the tick event the running tick stored at its
\* entry: the last tick event of the queue.
OwnTickEvent ==
    CHOOSE t \in DOMAIN m_events :
        /\ m_events[t].process_event = "tick_event"
        /\ \A k \in DOMAIN m_events : m_events[k].process_event = "tick_event" => k <= t

\* C25: an event stored while no tick is running stays in the queue until
\* the next tick, and that tick dispatches the events it finds queued in
\* store order, all of them before the tick event it appends behind them.
C25_IdleEventsFirst ==
    /\ pc = "idle" =>
          \A ptr \in DOMAIN dispatched :
              dispatched[ptr] = 0 => \E k \in DOMAIN m_events : m_events[k].ptr = ptr
    /\ pc = "drain" =>
          LET t == OwnTickEvent
          IN  /\ \A k \in DOMAIN m_events :
                     /\ origin[m_events[k].ptr] = 0
                     /\ m_events[k].ptr < m_events[t].ptr
                     => k < t
              /\ \A p \in 1..(t - 1) : m_events[p].ptr < m_events[p + 1].ptr
              /\ \A k \in DOMAIN log : k <= Len(m_events) /\ log[k] = m_events[k].ptr

\* Two events stored before the first tick have been dispatched in store
\* order, and the tick event after them.
C25_Witness ==
    /\ pc = "drain"
    /\ log = <<1, 2, 3>>
    /\ stack = << >>
    /\ origin[1] = 0 /\ origin[2] = 0
    /\ m_events[1].process_event = "game_event"
    /\ m_events[2].process_event = "game_event"
    /\ OwnTickEvent = 3

(***************************************************************************)
(* examples/pong: the time the ball is slid for within one tick, and the   *)
(* end of the collision sweep.                                             *)
(***************************************************************************)

\* The events of type Event stored by call k of the trace.
EmitsOf(k, Event) ==
    { e \in DOMAIN pong.trace[k].emits : pong.trace[k].emits[e].Event = Event }

\* The calls of the trace that stored all_collisions_resolved_event.
Endings == { k \in DOMAIN pong.trace : EmitsOf(k, "all_collisions_resolved_event") # {} }

\* The time call k slides the ball for: resolve_collisions slides it for the
\* contact time of the collision; find_collisions slides it for the remaining
\* time when it finds no collision, and not at all when no time remains.
SlideTime(k) ==
    LET call == pong.trace[k]
    IN  CASE call.system = resolve_collisions_system -> call.event.contact_time
          [] call.system = ball_movement /\ RemainingTime(call) > 0
                                         /\ EmitsOf(k, "collision_detected_event") = {}
               -> RemainingTime(call)
          [] OTHER -> 0

RECURSIVE SlideTimeUpTo(_)
SlideTimeUpTo(k) == IF k = 0 THEN 0 ELSE SlideTimeUpTo(k - 1) + SlideTime(k)

C27_OneEnding ==
    (outcome = "returned" /\ pong.ticks > 0) =>
        /\ Endings = { Len(pong.trace) }
        /\ Cardinality(EmitsOf(Len(pong.trace), "all_collisions_resolved_event")) = 1
        /\ pong.trace[Len(pong.trace)].emits[Len(pong.trace[Len(pong.trace)].emits)].Event
               = "all_collisions_resolved_event"

\* A returned tick with one bounce: collision_detected_event,
\* collision_resolved_event, then all_collisions_resolved_event.
C27_Witness ==
    /\ outcome = "returned"
    /\ Len(pong.trace) = 3
    /\ EmitsOf(1, "collision_detected_event") # {}
    /\ EmitsOf(2, "collision_resolved_event") # {}
    /\ Endings = {3}

(***************************************************************************)
(* destroy_entity and the relationship rows that point at the entity.      *)
(***************************************************************************)

\* C28: destroy_entity(e) removes the relationship rows owned by e only: a
\* row (o, e) of another owner o is still stored afterwards, and get(o) and
\* all() still return it.
C28_RelatedRowsKept ==
    lastOp.op = "destroy" =>
        \A o \in SceneEntities :
            <<o, lastOp.entity>> \in DOMAIN relShadow =>
                LET row == RelRow(o, lastOp.entity, relShadow[<<o, lastOp.entity>>])
                IN  /\ lastOp.entity \in DOMAIN relationship_get(rel, o)
                    /\ relationship_get(rel, o)[lastOp.entity] = row
                    /\ \E k \in DOMAIN relationship_all(rel) : relationship_all(rel)[k] = row

\* Entity 2 owned a row to entity 1 and was the related entity of a row of
\* entity 1; it was destroyed: its own row is gone, the row of entity 1 stays.
C28_Witness ==
    /\ lastOp.op = "destroy"
    /\ lastOp.entity = 2
    /\ lastOp.rows = 1
    /\ DOMAIN relShadow = {<<1, 2>>}
    /\ Len(rel.m_data) = 1
    /\ rel.m_data[1].entity = 1
    /\ rel.m_data[1].related_entity = 2

(***************************************************************************)
(* game_engine::run: the frame loop.  Time is counted in units of a grid;  *)
(* a scene is known by the number add_scene gave it.  A callback of a      *)
(* scene is given by what it does to the engine and to its own m_done.     *)
(***************************************************************************)

\* The keys of the keyboard that are followed.
Keys == {"K"}

\* The tick time a fixed tick rate gives, and the most time that passes
\* between two frames.
TickTime == 2
MaxDelta == 3

\* The frames without a tick that are followed between two ticks.
MaxIdleFrames == 2

\* What a callback may do: nothing, set_done(), or engine.add_scene().
Effects == {"none", "set_done", "add_scene"}

nonEngineVars == <<store, rel, single, shadow, relShadow, lastOp, view, entityVars,
                   unwound, sceneVars, pong>>

Capped(n) == IF n < 2 THEN n + 1 ELSE n

\* A callback of `scene` runs with the given effect.
apply_effect(e, scene, effect) ==
    CASE effect = "set_done" -> [e EXCEPT !.m_done = @ \cup {scene}]
      [] effect = "add_scene" /\ e.added < MaxScenes ->
             [e EXCEPT !.m_new_scenes = Append(@, e.added + 1), !.added = @ + 1]
      [] OTHER -> e

\* An update of the input state that compares the keys with those of the
\* frame before.
update_inputs_against_last_frame(inputs, key_states, previous_key_states) ==
    [held_keys |-> key_states,
     pressed_keys |-> inputs.pressed_keys \cup (key_states \ inputs.held_keys),
     released_keys |-> inputs.released_keys \cup (inputs.held_keys \ key_states)]

\* inputs.held_keys = window.key_states();
\* inputs.pressed_keys |= inputs.held_keys & ~previous_key_states;
\* inputs.released_keys |= ~inputs.held_keys & previous_key_states;
update_inputs(inputs, key_states, previous_key_states) ==
    [held_keys |-> key_states,
     pressed_keys |-> inputs.pressed_keys \cup (key_states \ previous_key_states),
     released_keys |-> inputs.released_keys \cup (previous_key_states \ key_states)]

\* The range-for of load_scenes over the scenes that were new when it
\* started: on_load, then the move into m_scenes.
RECURSIVE load_each(_, _, _)
load_each(st, range, effects) ==
    IF range = << >>
    THEN st
    ELSE LET scene == Head(range)
             loaded == apply_effect(st.engine, scene, Head(effects))
         IN  load_each([engine |-> [loaded EXCEPT !.m_scenes = Append(@, scene)],
                        life |-> [st.life EXCEPT ![scene].on_load = Capped(@)]],
                       Tail(range), Tail(effects))

\* load_scenes: every new scene is loaded; m_new_scenes.clear().
load_scenes(st, effects) ==
    IF Len(st.engine.m_new_scenes) > 0
    THEN LET done == load_each(st, st.engine.m_new_scenes, effects)
         IN  [done EXCEPT !.engine.m_new_scenes = << >>]
    ELSE st

\* for (auto&& scene : m_scenes) scene->tick(dt, inputs);
RECURSIVE tick_each(_, _, _)
tick_each(st, scenes, effects) ==
    IF scenes = << >>
    THEN st
    ELSE LET scene == Head(scenes)
         IN  tick_each([engine |-> apply_effect(st.engine, scene, Head(effects)),
                        life |-> [st.life EXCEPT
                                    ![scene].ticked = TRUE,
                                    ![scene].early = @ \/ st.life[scene].on_load = 0,
                                    ![scene].late = @ \/ st.life[scene].on_unload > 0]],
                       Tail(scenes), Tail(effects))

\* scene->on_unload(*this) for every scene of the list, called from `from`.
RECURSIVE unload_each(_, _, _)
unload_each(l, scenes, from) ==
    IF scenes = << >>
    THEN l
    ELSE unload_each([l EXCEPT ![Head(scenes)].on_unload = Capped(@),
                               ![Head(scenes)].unloaded_in = from],
                     Tail(scenes), from)

\* An unload_scenes that calls on_unload on the scenes that are done and
\* keeps them in m_scenes.
unload_scenes_keeps_done(st) ==
    LET done == SelectSeq(st.engine.m_scenes, LAMBDA scene : scene \in st.engine.m_done)
    IN  [engine |-> st.engine,
         life |-> unload_each(st.life, done, "unload_scenes")]

\* unload_scenes: stable_partition calls is_done once on every scene, and
\* on_unload on those that are done; erase drops them from m_scenes.
unload_scenes(st) ==
    LET done == SelectSeq(st.engine.m_scenes, LAMBDA scene : scene \in st.engine.m_done)
        kept == SelectSeq(st.engine.m_scenes, LAMBDA scene : scene \notin st.engine.m_done)
    IN  [engine |-> [st.engine EXCEPT !.m_scenes = kept],
         life |-> unload_each(st.life, done, "unload_scenes")]

\* game_engine::set_tick_rate, before run
SetTickRate(tick_time) ==
    /\ engine.pc = "start"
    /\ engine' = [engine EXCEPT !.m_tick_time = tick_time]
    /\ UNCHANGED <<keys, life, nonEngineVars>>

\* game_engine::add_scene, before run
AddScene ==
    /\ engine.pc = "start"
    /\ engine.added < MaxScenes
    /\ engine' = apply_effect(engine, 0, "add_scene")
    /\ UNCHANGED <<keys, life, nonEngineVars>>

\* run up to its loop: the input state is reset, the accumulator is zero.
Run ==
    /\ engine.pc = "start"
    /\ engine' = [engine EXCEPT !.pc = "load", !.inputs = NoInputs,
                                !.previous_key_states = {}, !.accumulator = 0]
    /\ UNCHANGED <<keys, life, nonEngineVars>>

\* The loop condition, first part: load_scenes.  An on_load that calls
\* add_scene appends to m_new_scenes while the range-for walks it: the loop
\* goes on over the scenes it started with, or the process ends.
LoadScenes(EffectSet) ==
    /\ engine.pc = "load"
    /\ \E effects \in [1..Len(engine.m_new_scenes) -> EffectSet] :
         \E behaviour \in IF \E k \in DOMAIN effects : effects[k] = "add_scene"
                          THEN {"goes on", "ends"}
                          ELSE {"defined"} :
            IF behaviour = "ends"
            THEN /\ engine' = [engine EXCEPT !.pc = "aborted"]
                 /\ UNCHANGED life
            ELSE LET st == load_scenes([engine |-> engine, life |-> life], effects)
                 IN  /\ engine' = [st.engine EXCEPT !.pc = "alive"]
                     /\ life' = st.life
    /\ UNCHANGED <<keys, nonEngineVars>>

\* The loop condition, second part: keep_alive.  rejecting are the scenes
\* whose on_close returns false.
KeepAlive ==
    /\ engine.pc = "alive"
    /\ \E wants_to_close \in BOOLEAN :
         \E rejecting \in SUBSET { engine.m_scenes[k] : k \in DOMAIN engine.m_scenes } :
            /\ ~wants_to_close => rejecting = {}
            /\ engine' = [engine EXCEPT !.pc = IF ~wants_to_close \/ rejecting # {}
                                               THEN "inputs" ELSE "cleanup"]
    /\ UNCHANGED <<keys, life, nonEngineVars>>

\* The loop body up to the test of the accumulator.
Inputs(KeyStates) ==
    /\ engine.pc = "inputs"
    /\ \E key_states \in KeyStates, delta_seconds \in 0..MaxDelta :
         LET accumulator == engine.accumulator + delta_seconds
             dt == IF engine.m_tick_time > 0 THEN engine.m_tick_time ELSE accumulator
             ticking == accumulator >= dt
         IN  /\ ~ticking => Len(keys.samples) < MaxIdleFrames
             /\ engine' = [engine EXCEPT
                             !.inputs = update_inputs(@, key_states, engine.previous_key_states),
                             !.accumulator = accumulator,
                             !.dt = dt,
                             !.pc = IF ticking THEN "tick" ELSE "draw"]
             /\ keys' = IF ticking
                        THEN [samples |-> << >>,
                              frames |-> << [before |-> engine.previous_key_states,
                                             idle |-> keys.samples,
                                             reports |-> << >>] >>]
                        ELSE [keys EXCEPT !.samples = Append(@, key_states)]
    /\ UNCHANGED <<life, nonEngineVars>>

\* One round of the do-while: every scene is ticked, the pressed and released
\* keys are reset, the accumulator is reduced.  After the last round
\* previous_key_states is set.  The reports kept are those of the first round
\* and of the latest.
TickRound(EffectSet) ==
    /\ engine.pc = "tick"
    /\ \E effects \in [1..Len(engine.m_scenes) -> EffectSet] :
         LET st == tick_each([engine |-> engine, life |-> life], engine.m_scenes, effects)
             accumulator == engine.accumulator - engine.dt
             again == accumulator >= engine.dt
         IN  /\ engine' = [st.engine EXCEPT
                             !.inputs = [@ EXCEPT !.pressed_keys = {}, !.released_keys = {}],
                             !.accumulator = accumulator,
                             !.previous_key_states = IF again THEN @ ELSE engine.inputs.held_keys,
                             !.pc = IF again THEN "tick" ELSE "unload"]
             /\ life' = st.life
             /\ keys' = [keys EXCEPT !.frames[1].reports =
                            IF Len(@) < 2 THEN Append(@, engine.inputs)
                            ELSE << @[1], engine.inputs >>]
    /\ UNCHANGED nonEngineVars

\* unload_scenes after the ticks of a frame.
UnloadScenes ==
    /\ engine.pc = "unload"
    /\ LET st == unload_scenes([engine |-> engine, life |-> life])
       IN  /\ engine' = [st.engine EXCEPT !.pc = "draw"]
           /\ life' = st.life
    /\ UNCHANGED <<keys, nonEngineVars>>

\* draw: every scene of m_scenes is rendered.
Draw ==
    /\ engine.pc = "draw"
    /\ engine' = [engine EXCEPT !.pc = "load"]
    /\ life' = [s \in DOMAIN life |->
                  IF \E k \in DOMAIN engine.m_scenes : engine.m_scenes[k] = s
                  THEN [life[s] EXCEPT !.rendered = TRUE,
                                       !.late = @ \/ life[s].on_unload > 0]
                  ELSE life[s]]
    /\ UNCHANGED <<keys, nonEngineVars>>

\* resources.cleanup() after the loop: on_unload on every scene left, then
\* m_scenes.clear().
Cleanup ==
    /\ engine.pc = "cleanup"
    /\ engine' = [engine EXCEPT !.pc = "stopped", !.m_scenes = << >>]
    /\ life' = unload_each(life, engine.m_scenes, "cleanup")
    /\ UNCHANGED <<keys, nonEngineVars>>

\* The engine with a fixed tick rate and scenes whose callbacks leave the
\* engine alone; the keys go down and up freely.
KeysNext ==
    \/ SetTickRate(TickTime)
    \/ AddScene
    \/ Run /\ engine.m_tick_time > 0
    \/ LoadScenes({"none"})
    \/ KeepAlive
    \/ Inputs(SUBSET Keys)
    \/ TickRound({"none"})
    \/ UnloadScenes
    \/ Draw
    \/ Cleanup

SpecKeys == Init /\ [][KeysNext]_vars

\* The engine with either tick time and scenes whose callbacks add scenes
\* and set themselves done; no key is touched.
ScenesNext ==
    \/ \E tick_time \in {0, TickTime} : SetTickRate(tick_time)
    \/ AddScene
    \/ Run
    \/ LoadScenes(Effects)
    \/ KeepAlive
    \/ Inputs({{}})
    \/ TickRound(Effects)
    \/ UnloadScenes
    \/ Draw
    \/ Cleanup

SpecScenes == Init /\ [][ScenesNext]_vars

\* The key was sampled down in one frame and up in a later one.
DownThenUp(k, samples) ==
    \E a, b \in DOMAIN samples : a < b /\ k \in samples[a] /\ k \notin samples[b]

C30_SceneLife ==
    \A s \in DOMAIN life :
        LET l == life[s]
        IN  /\ l.on_load <= 1
            /\ l.on_unload <= 1
            /\ ~l.early
            /\ ~l.late
            /\ (l.ticked \/ l.rendered \/ l.on_unload > 0) => l.on_load = 1
            /\ l.unloaded_in = "unload_scenes" => s \in engine.m_done /\ l.ticked
            /\ (\E k \in DOMAIN engine.m_scenes : engine.m_scenes[k] = s)
                   => l.on_load = 1 /\ l.on_unload = 0
            /\ engine.pc = "stopped" => (l.on_load = 1 => l.on_unload = 1)

\* Run has returned.  Scene 1 set itself done and was unloaded after a tick;
\* scene 2, added by a callback of scene 1, was ticked, rendered and unloaded
\* at shutdown.
C30_Witness ==
    /\ engine.pc = "stopped"
    /\ life[1].unloaded_in = "unload_scenes"
    /\ life[2].unloaded_in = "cleanup"
    /\ life[2].ticked /\ life[2].rendered
    /\ \A s \in {1, 2} : life[s].on_load = 1 /\ life[s].on_unload = 1

====
